---- MODULE Spec2Model ----
(***************************************************************************)
(* A model of the two sequence containers of ce: the fixed-capacity        *)
(* cvector<T,N> (include/ce/cvector.hpp) and the dynamic dvector<T>        *)
(* (include/ce/dvector.hpp), over an element type T with non-trivial       *)
(* special members (tests/Foo.hpp).                                        *)
(*                                                                         *)
(* A storage cell is modelled by whether it holds a live T and by the      *)
(* value of that T.  The program under test is a harness that owns the     *)
(* objects "a" (and, in the two-object harness, "b") of one of the two     *)
(* container templates and calls their public operations in any order.     *)
(* Assertions are active (debug build): a failed assertion aborts the      *)
(* program.  An operation whose behaviour is undefined (a read of a cell   *)
(* that holds no live element, an access outside the cell array) produces  *)
(* an arbitrary value and ends the modelled run.                           *)
(***************************************************************************)
EXTENDS Integers, Sequences, FiniteSets, TLC

\* cvector<T, 3>, the instantiation used throughout tests/cvector.cpp
N == 3

\* element values are 0..MaxVal in the harness of one cvector
MaxVal == 3
\* and 0..MaxValSmall in the other harnesses
MaxValSmall == 1
\* a dvector's capacity stays within MaxCap in the one-object harness
MaxCap == 4
\* and within MaxCapPair in the two-object harness
MaxCapPair == 1
\* the addresses new[] can return
NumBufs == 3

VARIABLES
  kind,     \* "cvector" or "dvector": the template the harness instantiates
  pair,     \* TRUE: the harness owns objects a and b; FALSE: only a
  cv,       \* the cvector objects: alive, n, storage
  dv,       \* the dvector objects: alive, capacity_, size_, storage_
  heap,     \* the cell arrays allocated with new[], by address
  status,   \* "running", "aborted" (assertion failed) or "undefined"
  last      \* the last operation called: its argument, its result and the
            \* lifetime errors it made

vars == <<kind, pair, cv, dv, heap, status, last>>

Objs == {"a", "b"}

Vals == 0..(IF pair \/ kind = "dvector" THEN MaxValSmall ELSE MaxVal)

\* no argument, no result
NoVal == -1

\* the value of a moved-from T: valid but unspecified
Unspec == -2

\* T(): `int n = 0` under the defaulted default constructor
DefaultVal == 0

Min(x, y) == IF x < y THEN x ELSE y
Max(x, y) == IF x < y THEN y ELSE x

(***************************************************************************)
(* Storage cells.                                                          *)
(***************************************************************************)
\* a cell that holds no live element (the union's member t is inactive)
Raw == [live |-> FALSE, val |-> 0]

\* std::construct_at(std::addressof(s.t), v)
construct(s, v) == [live |-> TRUE, val |-> v]

\* std::destroy_at(std::addressof(s.t))
destroy(s) == Raw

\* s.t = v : assignment to the element held by the cell
assign(s, v) == IF s.live THEN [live |-> TRUE, val |-> v] ELSE s

\* std::move(s).t handed to a constructor or returned by value: the cell keeps
\* a live, moved-from T
moved(s) == IF s.live THEN [live |-> TRUE, val |-> Unspec] ELSE s

\* the values a read of the cell's t can give
read(s) == IF s.live /\ s.val # Unspec THEN {s.val} ELSE Vals
readEv(s) == IF s.live THEN {} ELSE {"ub"}

\* lifetime errors of the three cell operations
constructEv(s) == IF s.live THEN {"overwrite"} ELSE {}
destroyEv(s) == IF s.live THEN {} ELSE {"dead_dtor"}
assignEv(s) == IF s.live THEN {} ELSE {"ub"}

\* the one element of a set of one element
The(S) == CHOOSE y \in S : TRUE

(***************************************************************************)
(* cvector_impl<T, N>: the operations as functions of the object c.        *)
(***************************************************************************)
Cells == 0..(N - 1)

\* the cells lo <= j < hi of a loop
Rng(lo, hi) == {j \in Cells : lo <= j /\ j < hi}

\* storage_type storage[N] = {}; int n = 0;
cvector_init == [alive |-> TRUE, n |-> 0, storage |-> [j \in Cells |-> Raw]]

\* an object that does not exist (before construction, after destruction)
cvector_none == [alive |-> FALSE, n |-> 0, storage |-> [j \in Cells |-> Raw]]

\* a faulty resize: the shrinking loop starts at i + 1
cvector_resize_skip(c, i) ==
  [c |-> [c EXCEPT !.n = i,
                   !.storage = [j \in Cells |->
                       IF j \in Rng(i + 1, c.n) THEN destroy(c.storage[j])
                       ELSE IF j \in Rng(c.n, i)
                            THEN construct(c.storage[j], DefaultVal)
                            ELSE c.storage[j]]],
   ev |-> UNION {destroyEv(c.storage[j]) : j \in Rng(i + 1, c.n)}
          \cup UNION {constructEv(c.storage[j]) : j \in Rng(c.n, i)}]

\* resize(i), 0 <= i <= N
cvector_resize(c, i) ==
  [c |-> [c EXCEPT !.n = i,
                   !.storage = [j \in Cells |->
                       IF j \in Rng(i, c.n) THEN destroy(c.storage[j])
                       ELSE IF j \in Rng(c.n, i)
                            THEN construct(c.storage[j], DefaultVal)
                            ELSE c.storage[j]]],
   ev |-> UNION {destroyEv(c.storage[j]) : j \in Rng(i, c.n)}
          \cup UNION {constructEv(c.storage[j]) : j \in Rng(c.n, i)}]

\* clear() { resize(0); }
cvector_clear(c) == cvector_resize(c, 0)

\* a faulty emplace_back: construct(storage[n++]), the arguments not forwarded
cvector_emplace_back_default(c, v) ==
  [c |-> [c EXCEPT !.n = c.n + 1,
                   !.storage[c.n] = construct(c.storage[c.n], DefaultVal)],
   ret |-> DefaultVal,
   ev |-> constructEv(c.storage[c.n])]

\* emplace_back(ts...) / push_back(t): return construct(storage[n++], t), n < N
cvector_emplace_back(c, v) ==
  [c |-> [c EXCEPT !.n = c.n + 1,
                   !.storage[c.n] = construct(c.storage[c.n], v)],
   ret |-> construct(c.storage[c.n], v).val,
   ev |-> constructEv(c.storage[c.n])]

\* a faulty pop_back: return std::move(storage[n--].t)
cvector_pop_back_post(c) ==
  [c |-> [c EXCEPT !.n = c.n - 1,
                   !.storage = [j \in Cells |->
                       IF j = c.n THEN moved(c.storage[j]) ELSE c.storage[j]]],
   ret |-> IF c.n \in Cells /\ c.storage[c.n].live THEN c.storage[c.n].val ELSE Unspec,
   ev |-> IF c.n \in Cells /\ c.storage[c.n].live THEN {} ELSE {"ub"}]

\* pop_back(): return std::move(storage[--n].t), n > 0
cvector_pop_back(c) ==
  [c |-> [c EXCEPT !.n = c.n - 1,
                   !.storage[c.n - 1] = moved(c.storage[c.n - 1])],
   ret |-> c.storage[c.n - 1].val,
   ev |-> {}]

\* front(): return storage[0].t  -- the index of the cell it designates
cvector_front(c) == 0

\* back(): return storage[n].t  -- the index of the cell it designates
cvector_back(c) == c.n

\* cvector(Ts&&... ts): (this->emplace_back(ts), ...)
RECURSIVE cvector_list(_)
cvector_list(ts) ==
  IF Len(ts) = 0 THEN [c |-> cvector_init, ev |-> {}]
  ELSE The({The({[c |-> e.c, ev |-> r.ev \cup e.ev] :
                   e \in {cvector_emplace_back(r.c, ts[Len(ts)])}}) :
              r \in {cvector_list(SubSeq(ts, 1, Len(ts) - 1))}})

\* a faulty on_copy: the loop that destroys the excess is missing
on_copy_keep(c, b) ==
  [c |-> [c EXCEPT !.n = b.n,
                   !.storage = [j \in Cells |->
                       IF j \in Rng(0, Min(c.n, b.n))
                       THEN assign(c.storage[j], b.storage[j].val)
                       ELSE IF j \in Rng(Min(c.n, b.n), b.n)
                            THEN construct(c.storage[j], b.storage[j].val)
                       ELSE c.storage[j]]],
   assigned |-> Cardinality(Rng(0, Min(c.n, b.n))),
   constructed |-> Cardinality(Rng(Min(c.n, b.n), b.n)),
   destroyed |-> 0,
   ev |-> UNION {assignEv(c.storage[j]) \cup readEv(b.storage[j]) :
                   j \in Rng(0, Min(c.n, b.n))}
          \cup UNION {constructEv(c.storage[j]) \cup readEv(b.storage[j]) :
                        j \in Rng(Min(c.n, b.n), b.n)}]

\* on_copy(b): assign the overlap, construct the rest of b, destroy the excess;
\* with the numbers of iterations of the three loops
on_copy(c, b) ==
  [c |-> [c EXCEPT !.n = b.n,
                   !.storage = [j \in Cells |->
                       IF j \in Rng(0, Min(c.n, b.n))
                       THEN assign(c.storage[j], b.storage[j].val)
                       ELSE IF j \in Rng(Min(c.n, b.n), b.n)
                            THEN construct(c.storage[j], b.storage[j].val)
                       ELSE IF j \in Rng(b.n, c.n) THEN destroy(c.storage[j])
                       ELSE c.storage[j]]],
   assigned |-> Cardinality(Rng(0, Min(c.n, b.n))),
   constructed |-> Cardinality(Rng(Min(c.n, b.n), b.n)),
   destroyed |-> Cardinality(Rng(b.n, c.n)),
   ev |-> UNION {assignEv(c.storage[j]) \cup readEv(b.storage[j]) :
                   j \in Rng(0, Min(c.n, b.n))}
          \cup UNION {constructEv(c.storage[j]) \cup readEv(b.storage[j]) :
                        j \in Rng(Min(c.n, b.n), b.n)}
          \cup UNION {destroyEv(c.storage[j]) : j \in Rng(b.n, c.n)}]

\* on_move(b): as on_copy, from std::move(b.storage[i]); n = std::exchange(b.n, 0)
on_move(c, b) ==
  The({[c |-> r.c,
        b |-> [b EXCEPT !.n = 0,
                        !.storage = [j \in Cells |->
                            IF j \in Rng(0, b.n) THEN moved(b.storage[j])
                            ELSE b.storage[j]]],
        ev |-> r.ev] : r \in {on_copy(c, b)}})

\* ~dtor() { on_dtor(); }, on_dtor() { clear(); }; then the cell array goes
\* away with the object, and with it any element still live in it
cvector_dtor(c) ==
  The({[c |-> cvector_none,
        ev |-> r.ev \cup (IF \E j \in Cells : r.c.storage[j].live THEN {"leak"} ELSE {})] :
         r \in {cvector_clear(c)}})

(***************************************************************************)
(* The heap: the cell arrays made by new storage_type[n].                  *)
(***************************************************************************)
\* nullptr
Null == 0

BufIds == 1..NumBufs

\* an address that designates no allocated array
FreeBuf == [alloc |-> FALSE, cells |-> <<>>]

\* storage_[i] designates a cell of an allocated array
Valid(h, p, i) == p # Null /\ h[p].alloc /\ i \in DOMAIN h[p].cells

\* the cell storage_[i]
CellAt(h, p, i) == IF Valid(h, p, i) THEN h[p].cells[i] ELSE Raw

\* the lifetime errors of an operation on storage_[i] whose errors on the cell
\* CellAt(h, p, i) are e
AtEv(h, p, i, e) == IF Valid(h, p, i) THEN e ELSE {"ub"}

\* the heap with the cells j of the array at p replaced by f[j], j \in DOMAIN f
Apply(h, p, f) ==
  IF p # Null /\ h[p].alloc
  THEN [h EXCEPT ![p].cells = [j \in DOMAIN @ |->
                                 IF j \in DOMAIN f THEN f[j] ELSE @[j]]]
  ELSE h

NewId(h) == CHOOSE p \in BufIds : ~h[p].alloc /\ \A q \in BufIds : ~h[q].alloc => p <= q

\* an allocation of n cells can be served
HasRoom(h, n) == n = 0 \/ \E p \in BufIds : ~h[p].alloc

\* allocate(n): (n) ? new storage_type[n] : nullptr
allocate(h, n) ==
  IF n = 0 THEN [p |-> Null, h |-> h]
  ELSE [p |-> NewId(h),
        h |-> [h EXCEPT ![NewId(h)] = [alloc |-> TRUE, cells |-> [j \in 0..(n - 1) |-> Raw]]]]

\* delete [] p: the union's destructor leaves t alone, so an element still
\* live in the array is never destroyed
delete_array(h, p) ==
  IF p = Null THEN [h |-> h, ev |-> {}]
  ELSE IF ~h[p].alloc THEN [h |-> h, ev |-> {"ub"}]
  ELSE [h |-> [h EXCEPT ![p] = FreeBuf],
        ev |-> IF \E j \in DOMAIN h[p].cells : h[p].cells[j].live THEN {"leak"} ELSE {}]

(***************************************************************************)
(* dvector<T>: the operations as functions of the object d and the heap h. *)
(***************************************************************************)
\* int capacity_ = 0; int size_ = 0; storage_type *storage_ = nullptr;
dvector_init == [alive |-> TRUE, capacity_ |-> 0, size_ |-> 0, storage_ |-> Null]

\* an object that does not exist (before construction, after destruction)
dvector_none == [alive |-> FALSE, capacity_ |-> 0, size_ |-> 0, storage_ |-> Null]

\* for (i = lo; i < hi; ++i) destroy(storage_[i]);
destroy_range(d, h, lo, hi) ==
  [h |-> Apply(h, d.storage_,
               [j \in lo..(hi - 1) |-> destroy(CellAt(h, d.storage_, j))]),
   ev |-> UNION {AtEv(h, d.storage_, j, destroyEv(CellAt(h, d.storage_, j))) :
                   j \in lo..(hi - 1)}]

\* for (i = lo; i < hi; ++i) construct(storage_[i]);
construct_range(d, h, lo, hi) ==
  [h |-> Apply(h, d.storage_,
               [j \in lo..(hi - 1) |-> construct(CellAt(h, d.storage_, j), DefaultVal)]),
   ev |-> UNION {AtEv(h, d.storage_, j, constructEv(CellAt(h, d.storage_, j))) :
                   j \in lo..(hi - 1)}]

\* a faulty reallocation: the previous array is not released
reallocate_keep(d, h, n) ==
  The({[d |-> [d EXCEPT !.capacity_ = n, !.storage_ = a.p],
        h |-> Apply(Apply(a.h, a.p,
                          [j \in 0..(d.size_ - 1) |->
                             construct(CellAt(a.h, a.p, j), CellAt(h, d.storage_, j).val)]),
                    d.storage_,
                    [j \in 0..(d.size_ - 1) |-> destroy(CellAt(h, d.storage_, j))]),
        ev |-> {}] :
         a \in {allocate(h, n)}})

\* temp = allocate(n); for (i < size_) construct(temp[i], std::move(storage_[i]));
\* delete [] std::exchange(storage_, temp);
reallocate(d, h, n) ==
  The({The({[d |-> [d EXCEPT !.capacity_ = n, !.storage_ = a.p],
             h |-> r.h,
             ev |-> r.ev \cup
                    UNION {AtEv(h, d.storage_, j, readEv(CellAt(h, d.storage_, j)))
                           \cup AtEv(a.h, a.p, j, constructEv(CellAt(a.h, a.p, j))) :
                             j \in 0..(d.size_ - 1)}] :
              r \in {delete_array(
                       Apply(Apply(a.h, a.p,
                                   [j \in 0..(d.size_ - 1) |->
                                      construct(CellAt(a.h, a.p, j),
                                                CellAt(h, d.storage_, j).val)]),
                             d.storage_,
                             [j \in 0..(d.size_ - 1) |-> moved(CellAt(h, d.storage_, j))]),
                       d.storage_)}}) :
         a \in {allocate(h, n)}})

\* an operation that leaves the object and the heap as they are
Same(d, h) == [d |-> d, h |-> h, ev |-> {}]

\* a faulty reserve: reallocates also when n equals the capacity
dvector_reserve_eq(d, h, n) ==
  IF d.capacity_ <= n THEN reallocate(d, h, n) ELSE Same(d, h)

\* reserve(n)
dvector_reserve(d, h, n) ==
  IF d.capacity_ < n THEN reallocate(d, h, n) ELSE Same(d, h)

\* a faulty shrink_to_fit: one spare cell is tolerated
dvector_shrink_to_fit_spare(d, h) ==
  IF d.size_ + 1 < d.capacity_ THEN reallocate(d, h, d.size_) ELSE Same(d, h)

\* shrink_to_fit()
dvector_shrink_to_fit(d, h) ==
  IF d.size_ < d.capacity_ THEN reallocate(d, h, d.size_) ELSE Same(d, h)

\* the capacity emplace_back / push_back leave: reserve(std::max(2 * capacity_, 1))
grown(d) == IF d.size_ = d.capacity_ THEN Max(2 * d.capacity_, 1) ELSE d.capacity_

\* a faulty emplace_back: a full vector grows by one cell
dvector_emplace_back_plus(d, h, v) ==
  The({[d |-> [g.d EXCEPT !.size_ = g.d.size_ + 1],
        h |-> Apply(g.h, g.d.storage_,
                    [j \in {g.d.size_} |-> construct(CellAt(g.h, g.d.storage_, j), v)]),
        ret |-> construct(CellAt(g.h, g.d.storage_, g.d.size_), v).val,
        ev |-> g.ev \cup AtEv(g.h, g.d.storage_, g.d.size_,
                              constructEv(CellAt(g.h, g.d.storage_, g.d.size_)))] :
         g \in {IF d.size_ = d.capacity_
                THEN dvector_reserve(d, h, d.capacity_ + 1)
                ELSE Same(d, h)}})

\* a faulty emplace_back: a full vector triples its capacity
dvector_emplace_back_triple(d, h, v) ==
  The({[d |-> [g.d EXCEPT !.size_ = g.d.size_ + 1],
        h |-> Apply(g.h, g.d.storage_,
                    [j \in {g.d.size_} |-> construct(CellAt(g.h, g.d.storage_, j), v)]),
        ret |-> construct(CellAt(g.h, g.d.storage_, g.d.size_), v).val,
        ev |-> g.ev \cup AtEv(g.h, g.d.storage_, g.d.size_,
                              constructEv(CellAt(g.h, g.d.storage_, g.d.size_)))] :
         g \in {IF d.size_ = d.capacity_
                THEN dvector_reserve(d, h, Max(3 * d.capacity_, 1))
                ELSE Same(d, h)}})

\* emplace_back(ts...) / push_back(t): return construct(storage_[size_++], t)
dvector_emplace_back(d, h, v) ==
  The({[d |-> [g.d EXCEPT !.size_ = g.d.size_ + 1],
        h |-> Apply(g.h, g.d.storage_,
                    [j \in {g.d.size_} |-> construct(CellAt(g.h, g.d.storage_, j), v)]),
        ret |-> construct(CellAt(g.h, g.d.storage_, g.d.size_), v).val,
        ev |-> g.ev \cup AtEv(g.h, g.d.storage_, g.d.size_,
                              constructEv(CellAt(g.h, g.d.storage_, g.d.size_)))] :
         g \in {IF d.size_ = d.capacity_
                THEN dvector_reserve(d, h, Max(2 * d.capacity_, 1))
                ELSE Same(d, h)}})

\* pop_back(): return std::move(storage_[--size_].t), size_ > 0
dvector_pop_back(d, h) ==
  [d |-> [d EXCEPT !.size_ = d.size_ - 1],
   h |-> Apply(h, d.storage_,
               [j \in {d.size_ - 1} |-> moved(CellAt(h, d.storage_, j))]),
   ret |-> CellAt(h, d.storage_, d.size_ - 1).val,
   ev |-> AtEv(h, d.storage_, d.size_ - 1, readEv(CellAt(h, d.storage_, d.size_ - 1)))]

\* front(): return storage_[0].t  -- the index of the cell it designates
dvector_front(d) == 0

\* back(): return storage_[size_ - 1].t  -- the index of the cell it designates
dvector_back(d) == d.size_ - 1

\* a faulty resize: growth doubles the capacity when that is more than n
dvector_resize_double(d, h, n) ==
  The({The({The({[d |-> [g.d EXCEPT !.size_ = n],
                  h |-> y.h,
                  ev |-> g.ev \cup x.ev \cup y.ev] :
                   y \in {construct_range(g.d, x.h, g.d.size_, n)}}) :
              x \in {destroy_range(g.d, g.h, n, g.d.size_)}}) :
         g \in {IF d.capacity_ < n THEN dvector_reserve(d, h, Max(2 * d.capacity_, n))
                ELSE Same(d, h)}})

\* resize(n): reserve, destroy the excess, default construct the rest; the
\* code asserts nothing about n
dvector_resize(d, h, n) ==
  The({The({The({[d |-> [g.d EXCEPT !.size_ = n],
                  h |-> y.h,
                  ev |-> g.ev \cup x.ev \cup y.ev] :
                   y \in {construct_range(g.d, x.h, g.d.size_, n)}}) :
              x \in {destroy_range(g.d, g.h, n, g.d.size_)}}) :
         g \in {IF d.capacity_ < n THEN dvector_reserve(d, h, n) ELSE Same(d, h)}})

\* clear()
dvector_clear(d, h) ==
  The({[d |-> [d EXCEPT !.size_ = 0], h |-> x.h, ev |-> x.ev] :
         x \in {destroy_range(d, h, 0, d.size_)}})

\* ~dvector() { clear(); delete [] storage_; }
dvector_dtor(d, h) ==
  The({The({[d |-> dvector_none, h |-> r.h, ev |-> c.ev \cup r.ev] :
              r \in {delete_array(c.h, d.storage_)}}) :
         c \in {dvector_clear(d, h)}})

\* a faulty dvector(int n): the cells are allocated and size_ is left at 0
dvector_n_empty(h, n) ==
  The({[d |-> [alive |-> TRUE, capacity_ |-> n, size_ |-> 0, storage_ |-> a.p],
        h |-> a.h, ev |-> {}] : a \in {allocate(h, n)}})

\* dvector(int n), n >= 0
dvector_n(h, n) ==
  The({The({[d |-> [alive |-> TRUE, capacity_ |-> n, size_ |-> n, storage_ |-> a.p],
             h |-> y.h, ev |-> y.ev] :
              y \in {construct_range([alive |-> TRUE, capacity_ |-> n, size_ |-> n,
                                      storage_ |-> a.p], a.h, 0, n)}}) :
         a \in {allocate(h, n)}})

\* (emplace_back(ts), ...)
RECURSIVE emplace_all(_, _)
emplace_all(g, ts) ==
  IF Len(ts) = 0 THEN g
  ELSE The({emplace_all([d |-> e.d, h |-> e.h, ev |-> g.ev \cup e.ev], Tail(ts)) :
              e \in {dvector_emplace_back(g.d, g.h, Head(ts))}})

\* a faulty list constructor: the reserve is missing
dvector_list_grow(h, ts) ==
  emplace_all([d |-> dvector_init, h |-> h, ev |-> {}], ts)

\* dvector(std::in_place_t, ts...): reserve(sizeof...(ts)); (emplace_back(ts), ...)
dvector_list(h, ts) ==
  The({emplace_all(g, ts) : g \in {dvector_reserve(dvector_init, h, Len(ts))}})

\* copy the elements of b over the cells of d: assign the overlap, construct
\* the rest of b, destroy the excess; with the numbers of iterations of the
\* three loops
reconcile(d, h, b) ==
  The({[d |-> [d EXCEPT !.size_ = b.size_],
        h |-> x.h,
        assigned |-> Cardinality(0..(Min(d.size_, b.size_) - 1)),
        constructed |-> Cardinality(Min(d.size_, b.size_)..(b.size_ - 1)),
        destroyed |-> Cardinality(Max(Min(d.size_, b.size_), b.size_)..(d.size_ - 1)),
        ev |-> x.ev
               \cup UNION {AtEv(h, d.storage_, j, assignEv(CellAt(h, d.storage_, j)))
                           \cup AtEv(h, b.storage_, j, readEv(CellAt(h, b.storage_, j))) :
                             j \in 0..(Min(d.size_, b.size_) - 1)}
               \cup UNION {AtEv(h, d.storage_, j, constructEv(CellAt(h, d.storage_, j)))
                           \cup AtEv(h, b.storage_, j, readEv(CellAt(h, b.storage_, j))) :
                             j \in Min(d.size_, b.size_)..(b.size_ - 1)}] :
         x \in {destroy_range(d,
                  Apply(h, d.storage_,
                        [j \in 0..(b.size_ - 1) |->
                           IF j < d.size_
                           THEN assign(CellAt(h, d.storage_, j), CellAt(h, b.storage_, j).val)
                           ELSE construct(CellAt(h, d.storage_, j),
                                          CellAt(h, b.storage_, j).val)]),
                  Max(Min(d.size_, b.size_), b.size_), d.size_)}})

\* a faulty copy constructor: the new object points at b's array
dvector_copy_shallow(h, b) ==
  [d |-> [alive |-> TRUE, capacity_ |-> b.capacity_, size_ |-> b.size_,
          storage_ |-> b.storage_],
   h |-> h, assigned |-> 0, constructed |-> 0, destroyed |-> 0, ev |-> {}]

\* dvector(const dvector& b)
dvector_copy(h, b) ==
  The({reconcile([alive |-> TRUE, capacity_ |-> b.capacity_, size_ |-> 0,
                  storage_ |-> a.p], a.h, b) :
         a \in {allocate(h, b.capacity_)}})

\* a faulty std::exchange(b.storage_, nullptr): b keeps its pointer
given_keep(b) == [b EXCEPT !.capacity_ = 0, !.size_ = 0]

\* the object that has taken b's data, and what std::exchange leaves of b
taken(b) == [alive |-> TRUE, capacity_ |-> b.capacity_, size_ |-> b.size_,
             storage_ |-> b.storage_]
given(b) == [b EXCEPT !.capacity_ = 0, !.size_ = 0, !.storage_ = Null]

\* a faulty operator=: a vector that is too small keeps its array
dvector_assign_copy_reuse(d, h, b) == reconcile(d, h, b)

\* operator=(const dvector& b); destroyed counts the elements clear() destroys too
dvector_assign_copy(d, h, b) ==
  IF d.capacity_ < b.capacity_
  THEN The({The({The({The({[d |-> e.d, h |-> e.h, ev |-> c.ev \cup r.ev \cup e.ev,
                            assigned |-> e.assigned, constructed |-> e.constructed,
                            destroyed |-> Cardinality(0..(d.size_ - 1)) + e.destroyed] :
                             e \in {reconcile([c.d EXCEPT !.capacity_ = b.capacity_,
                                                          !.storage_ = a.p], a.h, b)}}) :
                        a \in {allocate(r.h, b.capacity_)}}) :
                   r \in {delete_array(c.h, d.storage_)}}) :
              c \in {dvector_clear(d, h)}})
  ELSE reconcile(d, h, b)

\* a faulty operator=(dvector&&): the previous array is not released
dvector_assign_move_keep(d, h, b) ==
  The({[d |-> taken(b), b |-> given(b), h |-> c.h, ev |-> c.ev] :
         c \in {dvector_clear(d, h)}})

\* operator=(dvector&& b): clear(); delete [] storage_; take b's data
dvector_assign_move(d, h, b) ==
  The({The({[d |-> taken(b), b |-> given(b), h |-> r.h, ev |-> c.ev \cup r.ev] :
              r \in {delete_array(c.h, d.storage_)}}) :
         c \in {dvector_clear(d, h)}})

(***************************************************************************)
(* The harness: one action per public operation.                           *)
(***************************************************************************)
Op(o, k, x, r, e) == [op |-> o, obj |-> k, arg |-> x, ret |-> r, ev |-> e]

Running == status = "running"

\* k is an object of the harness that does not exist yet
CanMake(k) == Running /\ (k = "a" \/ pair)

StatusOf(e) == IF "ub" \in e THEN "undefined" ELSE "running"

\* the operation ran to completion on the cvector objects
CStep(newcv, o) ==
  /\ cv' = newcv
  /\ status' = StatusOf(o.ev)
  /\ last' = o
  /\ UNCHANGED <<kind, pair, dv, heap>>

\* an assertion failed: the program aborts, nothing else changes
Abort(o) ==
  /\ status' = "aborted"
  /\ last' = o
  /\ UNCHANGED <<kind, pair, cv, dv, heap>>

IsC(k) == Running /\ kind = "cvector" /\ cv[k].alive

\* the two-object harness calls the operations that take two objects and
\* push_back, pop_back and clear; the one-object harness calls the others too
Solo == ~pair

NewC(k) == CanMake(k) /\ kind = "cvector" /\ ~cv[k].alive

\* cvector<T, N> k;
CCtorDefault(k) ==
  /\ NewC(k)
  /\ CStep([cv EXCEPT ![k] = cvector_init], Op("ctor", k, NoVal, NoVal, {}))

\* cvector<T, N> k(n): the only constructor that takes an int is cvector(Ts&&...)
CCtorSized(k) ==
  /\ NewC(k) /\ Solo
  /\ \E n \in 0..N :
       /\ n \in Vals
       /\ \E r \in {cvector_list(<<n>>)} :
            CStep([cv EXCEPT ![k] = r.c], Op("ctor_n", k, n, NoVal, r.ev))

\* cvector<T, N> k = { std::in_place, v1, .., vm }, m <= N by the static_assert
CCtorList(k) ==
  /\ NewC(k)
  /\ \E m \in 1..N : \E ts \in [1..m -> Vals] :
       \E r \in {cvector_list(ts)} :
         CStep([cv EXCEPT ![k] = r.c], Op("ctor_list", k, m, NoVal, r.ev))

\* cvector<T, N> k = s;  (P0848::copy: on_copy into the fresh object)
CCtorCopy(k, s) ==
  /\ NewC(k) /\ IsC(s) /\ k # s
  /\ \E r \in {on_copy(cvector_init, cv[s])} :
       CStep([cv EXCEPT ![k] = r.c], Op("ctor_copy", k, NoVal, NoVal, r.ev))

\* cvector<T, N> k = std::move(s);  (P0848::move: on_move into the fresh object)
CCtorMove(k, s) ==
  /\ NewC(k) /\ IsC(s) /\ k # s
  /\ \E r \in {on_move(cvector_init, cv[s])} :
       CStep([cv EXCEPT ![k] = r.c, ![s] = r.b], Op("ctor_move", k, NoVal, NoVal, r.ev))

\* k = s;
CAssignCopy(k, s) ==
  /\ IsC(k) /\ IsC(s) /\ k # s
  /\ \E r \in {on_copy(cv[k], cv[s])} :
       CStep([cv EXCEPT ![k] = r.c], Op("assign_copy", k, NoVal, NoVal, r.ev))

\* k = std::move(s);
CAssignMove(k, s) ==
  /\ IsC(k) /\ IsC(s) /\ k # s
  /\ \E r \in {on_move(cv[k], cv[s])} :
       CStep([cv EXCEPT ![k] = r.c, ![s] = r.b], Op("assign_move", k, NoVal, NoVal, r.ev))

\* k goes out of scope
CDtor(k) ==
  /\ IsC(k)
  /\ \E r \in {cvector_dtor(cv[k])} :
       CStep([cv EXCEPT ![k] = r.c], Op("dtor", k, NoVal, NoVal, r.ev))

\* k.resize(i)   { assert(0 <= i && i <= N); ... }
CResize(k) ==
  /\ IsC(k) /\ Solo
  /\ \E i \in -1..(N + 1) :
       IF 0 <= i /\ i <= N
       THEN \E r \in {cvector_resize(cv[k], i)} :
              CStep([cv EXCEPT ![k] = r.c], Op("resize", k, i, NoVal, r.ev))
       ELSE Abort(Op("resize", k, i, NoVal, {}))

\* k.clear()
CClear(k) ==
  /\ IsC(k)
  /\ \E r \in {cvector_clear(cv[k])} :
       CStep([cv EXCEPT ![k] = r.c], Op("clear", k, NoVal, NoVal, r.ev))

\* k.push_back(v), k.emplace_back(v)   { assert(n < N); ... }
CPushBack(k) ==
  /\ IsC(k)
  /\ \E v \in Vals :
       IF cv[k].n < N
       THEN \E r \in {cvector_emplace_back(cv[k], v)} :
              CStep([cv EXCEPT ![k] = r.c], Op("push_back", k, v, r.ret, r.ev))
       ELSE Abort(Op("push_back", k, v, NoVal, {}))

\* k.pop_back()   { assert(n > 0); ... }
CPopBack(k) ==
  /\ IsC(k)
  /\ IF cv[k].n > 0
     THEN \E r \in {cvector_pop_back(cv[k])} :
            CStep([cv EXCEPT ![k] = r.c], Op("pop_back", k, NoVal, r.ret, r.ev))
     ELSE Abort(Op("pop_back", k, NoVal, NoVal, {}))

\* a read of cell j of the cvector k: some value comes back
CRead(k, j, name, x) ==
  LET s == IF j \in Cells THEN cv[k].storage[j] ELSE Raw
  IN  \E g \in read(s) : CStep(cv, Op(name, k, x, g, readEv(s)))

\* k[i]   { assert(0 <= i && i < n); ... }
CIndex(k) ==
  /\ IsC(k) /\ Solo
  /\ \E i \in -1..N :
       IF 0 <= i /\ i < cv[k].n THEN CRead(k, i, "index", i)
       ELSE Abort(Op("index", k, i, NoVal, {}))

\* k.front()   (no assertion)
CFront(k) ==
  /\ IsC(k) /\ Solo
  /\ CRead(k, cvector_front(cv[k]), "front", NoVal)

\* k.back()   (no assertion)
CBack(k) ==
  /\ IsC(k) /\ Solo
  /\ CRead(k, cvector_back(cv[k]), "back", NoVal)

\* k.back() = v
CBackWrite(k) ==
  /\ IsC(k) /\ Solo
  /\ \E v \in Vals :
       LET j == cvector_back(cv[k])
       IN  IF j \in Cells
           THEN CStep([cv EXCEPT ![k].storage[j] = assign(@, v)],
                      Op("back_write", k, v, NoVal, assignEv(cv[k].storage[j])))
           ELSE CStep(cv, Op("back_write", k, v, NoVal, {"ub"}))

\* the operation ran to completion on the dvector objects and the heap
DStep(newdv, newheap, o) ==
  /\ dv' = newdv
  /\ heap' = newheap
  /\ status' = StatusOf(o.ev)
  /\ last' = o
  /\ UNCHANGED <<kind, pair, cv>>

\* the capacity the harness lets a dvector reach
Cap == IF pair THEN MaxCapPair ELSE MaxCap

IsD(k) == Running /\ kind = "dvector" /\ dv[k].alive

NewD(k) == CanMake(k) /\ kind = "dvector" /\ ~dv[k].alive

\* dvector<T> k;
DCtorDefault(k) ==
  /\ NewD(k)
  /\ DStep([dv EXCEPT ![k] = dvector_init], heap, Op("ctor", k, NoVal, NoVal, {}))

\* dvector<T> k(n): new storage_type[n] throws for n < 0, before the assertion
DCtorSized(k) ==
  /\ NewD(k)
  /\ \E n \in -1..Cap :
       IF n < 0 THEN Solo /\ Abort(Op("ctor_n", k, n, NoVal, {}))
       ELSE /\ Solo /\ HasRoom(heap, n)
            /\ \E r \in {dvector_n(heap, n)} :
                 DStep([dv EXCEPT ![k] = r.d], r.h, Op("ctor_n", k, n, NoVal, r.ev))

\* dvector<T> k = { std::in_place, v1, .., vm }
DCtorList(k) ==
  /\ NewD(k) /\ HasRoom(heap, 1)
  /\ \E m \in 1..Cap : \E ts \in [1..m -> Vals] :
       \E r \in {dvector_list(heap, ts)} :
         DStep([dv EXCEPT ![k] = r.d], r.h, Op("ctor_list", k, m, NoVal, r.ev))

\* dvector<T> k = s;
DCtorCopy(k, s) ==
  /\ NewD(k) /\ IsD(s) /\ k # s /\ HasRoom(heap, dv[s].capacity_)
  /\ \E r \in {dvector_copy(heap, dv[s])} :
       DStep([dv EXCEPT ![k] = r.d], r.h, Op("ctor_copy", k, NoVal, NoVal, r.ev))

\* dvector<T> k = std::move(s);
DCtorMove(k, s) ==
  /\ NewD(k) /\ IsD(s) /\ k # s
  /\ DStep([dv EXCEPT ![k] = taken(dv[s]), ![s] = given(dv[s])], heap,
           Op("ctor_move", k, NoVal, NoVal, {}))

\* k = s;
DAssignCopy(k, s) ==
  /\ IsD(k) /\ IsD(s) /\ k # s
  /\ \E r \in {dvector_assign_copy(dv[k], heap, dv[s])} :
       DStep([dv EXCEPT ![k] = r.d], r.h, Op("assign_copy", k, NoVal, NoVal, r.ev))

\* k = std::move(s);
DAssignMove(k, s) ==
  /\ IsD(k) /\ IsD(s) /\ k # s
  /\ \E r \in {dvector_assign_move(dv[k], heap, dv[s])} :
       DStep([dv EXCEPT ![k] = r.d, ![s] = r.b], r.h,
               Op("assign_move", k, NoVal, NoVal, r.ev))

\* k goes out of scope
DDtor(k) ==
  /\ IsD(k)
  /\ \E r \in {dvector_dtor(dv[k], heap)} :
       DStep([dv EXCEPT ![k] = r.d], r.h, Op("dtor", k, NoVal, NoVal, r.ev))

\* k.reserve(n)
DReserve(k) ==
  /\ IsD(k) /\ Solo /\ HasRoom(heap, 1)
  /\ \E n \in -1..Cap :
       \E r \in {dvector_reserve(dv[k], heap, n)} :
         DStep([dv EXCEPT ![k] = r.d], r.h, Op("reserve", k, n, NoVal, r.ev))

\* k.shrink_to_fit()
DShrinkToFit(k) ==
  /\ IsD(k) /\ Solo /\ HasRoom(heap, 1)
  /\ \E r \in {dvector_shrink_to_fit(dv[k], heap)} :
       DStep([dv EXCEPT ![k] = r.d], r.h, Op("shrink_to_fit", k, NoVal, NoVal, r.ev))

\* k.resize(n)
DResize(k) ==
  /\ IsD(k) /\ Solo /\ HasRoom(heap, 1)
  /\ \E n \in -1..Cap :
       \E r \in {dvector_resize(dv[k], heap, n)} :
         DStep([dv EXCEPT ![k] = r.d], r.h, Op("resize", k, n, NoVal, r.ev))

\* k.clear()
DClear(k) ==
  /\ IsD(k)
  /\ \E r \in {dvector_clear(dv[k], heap)} :
       DStep([dv EXCEPT ![k] = r.d], r.h, Op("clear", k, NoVal, NoVal, r.ev))

\* k.push_back(v), k.emplace_back(v)
DPushBack(k) ==
  /\ IsD(k) /\ HasRoom(heap, 1) /\ grown(dv[k]) <= Cap
  /\ \E v \in Vals :
       \E r \in {dvector_emplace_back(dv[k], heap, v)} :
         DStep([dv EXCEPT ![k] = r.d], r.h, Op("push_back", k, v, r.ret, r.ev))

\* k.pop_back()   { assert(size_ > 0); ... }
DPopBack(k) ==
  /\ IsD(k)
  /\ IF dv[k].size_ > 0
     THEN \E r \in {dvector_pop_back(dv[k], heap)} :
            DStep([dv EXCEPT ![k] = r.d], r.h, Op("pop_back", k, NoVal, r.ret, r.ev))
     ELSE Abort(Op("pop_back", k, NoVal, NoVal, {}))

\* a read of storage_[j] of the dvector k: some value comes back
DRead(k, j, name, x) ==
  \E g \in read(CellAt(heap, dv[k].storage_, j)) :
    DStep(dv, heap, Op(name, k, x, g,
                       AtEv(heap, dv[k].storage_, j, readEv(CellAt(heap, dv[k].storage_, j)))))

\* k[i]   { assert(0 <= i && i < size_); ... }
DIndex(k) ==
  /\ IsD(k) /\ Solo
  /\ \E i \in -1..Cap :
       IF 0 <= i /\ i < dv[k].size_ THEN DRead(k, i, "index", i)
       ELSE Abort(Op("index", k, i, NoVal, {}))

\* k.front()   { assert(size_ > 0); ... }
DFront(k) ==
  /\ IsD(k) /\ Solo
  /\ IF dv[k].size_ > 0 THEN DRead(k, dvector_front(dv[k]), "front", NoVal)
     ELSE Abort(Op("front", k, NoVal, NoVal, {}))

\* k.back()   { assert(size_ > 0); ... }
DBack(k) ==
  /\ IsD(k) /\ Solo
  /\ IF dv[k].size_ > 0 THEN DRead(k, dvector_back(dv[k]), "back", NoVal)
     ELSE Abort(Op("back", k, NoVal, NoVal, {}))

\* k.back() = v   { assert(size_ > 0); ... }
DBackWrite(k) ==
  /\ IsD(k) /\ Solo
  /\ \E v \in Vals :
       IF dv[k].size_ > 0
       THEN \E j \in {dvector_back(dv[k])} :
              DStep(dv,
                    Apply(heap, dv[k].storage_,
                          [i \in {j} |-> assign(CellAt(heap, dv[k].storage_, i), v)]),
                    Op("back_write", k, v, NoVal,
                       AtEv(heap, dv[k].storage_, j,
                            assignEv(CellAt(heap, dv[k].storage_, j)))))
       ELSE Abort(Op("back_write", k, v, NoVal, {}))

(***************************************************************************)
(* The observers of an object k of the harness, whichever template it is.  *)
(***************************************************************************)
\* k has been constructed and not yet destroyed
Alive(k) == IF kind = "cvector" THEN cv[k].alive ELSE dv[k].alive

\* k.size()
Size(k) == IF kind = "cvector" THEN cv[k].n ELSE dv[k].size_

\* k.capacity()
Capacity(k) == IF kind = "cvector" THEN N ELSE dv[k].capacity_

\* the cell of k at index j: storage[j], storage_[j]
CellOf(k, j) ==
  IF kind = "cvector" THEN (IF j \in Cells THEN cv[k].storage[j] ELSE Raw)
  ELSE CellAt(heap, dv[k].storage_, j)

\* the value of k[j]
Elem(k, j) == CellOf(k, j).val

\* the elements of k in order
Elems(k) == [j \in 1..Size(k) |-> Elem(k, j - 1)]

Init ==
  /\ kind \in {"cvector", "dvector"}
  /\ pair \in BOOLEAN
  /\ cv = [k \in Objs |-> cvector_none]
  /\ dv = [k \in Objs |-> dvector_none]
  /\ heap = [p \in BufIds |-> FreeBuf]
  /\ status = "running"
  /\ last = Op("none", "a", NoVal, NoVal, {})

Next ==
  \/ \E k \in Objs : CCtorDefault(k)
  \/ \E k \in Objs : CCtorSized(k)
  \/ \E k \in Objs : CCtorList(k)
  \/ \E k, s \in Objs : CCtorCopy(k, s)
  \/ \E k, s \in Objs : CCtorMove(k, s)
  \/ \E k, s \in Objs : CAssignCopy(k, s)
  \/ \E k, s \in Objs : CAssignMove(k, s)
  \/ \E k \in Objs : CDtor(k)
  \/ \E k \in Objs : CResize(k)
  \/ \E k \in Objs : CClear(k)
  \/ \E k \in Objs : CPushBack(k)
  \/ \E k \in Objs : CPopBack(k)
  \/ \E k \in Objs : CIndex(k)
  \/ \E k \in Objs : CFront(k)
  \/ \E k \in Objs : CBack(k)
  \/ \E k \in Objs : CBackWrite(k)
  \/ \E k \in Objs : DCtorDefault(k)
  \/ \E k \in Objs : DCtorSized(k)
  \/ \E k \in Objs : DCtorList(k)
  \/ \E k, s \in Objs : DCtorCopy(k, s)
  \/ \E k, s \in Objs : DCtorMove(k, s)
  \/ \E k, s \in Objs : DAssignCopy(k, s)
  \/ \E k, s \in Objs : DAssignMove(k, s)
  \/ \E k \in Objs : DDtor(k)
  \/ \E k \in Objs : DReserve(k)
  \/ \E k \in Objs : DShrinkToFit(k)
  \/ \E k \in Objs : DResize(k)
  \/ \E k \in Objs : DClear(k)
  \/ \E k \in Objs : DPushBack(k)
  \/ \E k \in Objs : DPopBack(k)
  \/ \E k \in Objs : DIndex(k)
  \/ \E k \in Objs : DFront(k)
  \/ \E k \in Objs : DBack(k)
  \/ \E k \in Objs : DBackWrite(k)

Spec == Init /\ [][Next]_vars

(***************************************************************************)
(* The contracts of the two containers, as formulas over the harness.      *)
(***************************************************************************)

\* C1 (live-prefix invariant): after every operation that ran to completion,
\* the cells of every existing cvector and dvector that hold a live element
\* are exactly the cells at the indices [0, size()).
C1_LivePrefix ==
  \A k \in Objs :
    Alive(k) /\ status = "running" =>
      \A j \in 0..(Capacity(k) - 1) : CellOf(k, j).live <=> j < Size(k)

\* C2 (exactly-once destruction): no operation loses a live element (frees or
\* abandons its cell, or constructs another element on top of it, so that its
\* destructor never runs) and none destroys an element that is not live (so
\* that its destructor runs twice): every constructed element is destroyed
\* exactly once by the time its container is gone.
C2_ExactlyOnce == last.ev \cap {"leak", "overwrite", "dead_dtor"} = {}

\* C3 (size bounds): as long as no assertion has failed, every existing
\* container has 0 <= size() <= capacity(), and a cvector<T, N> has
\* capacity() = N.
C3_SizeBounds ==
  \A k \in Objs :
    Alive(k) /\ status # "aborted" =>
      /\ 0 <= Size(k)
      /\ Size(k) <= Capacity(k)
      /\ (kind = "cvector" => Capacity(k) = N)

\* C4 (pop_back destroys the vacated cell): after a pop_back() that ran to
\* completion, the cell it vacated (index size() after the call) holds no live
\* element.
C4_PopBackDestroys ==
  last.op = "pop_back" /\ status = "running" =>
    ~CellOf(last.obj, Size(last.obj)).live

\* the step is a push_back(v) on the cvector k, and a pop_back() called next
\* gives back v, the size and the elements from before the push_back
RoundTripC(k) ==
  LET q == cvector_pop_back(cv'[k])
  IN  /\ q.ret = last'.arg
      /\ q.c.n = cv[k].n
      /\ \A j \in Rng(0, cv[k].n) : q.c.storage[j] = cv[k].storage[j]

\* the step is a push_back(v) on the dvector k, and a pop_back() called next
\* gives back v, the size and the elements from before the push_back, and a
\* capacity that is not smaller
RoundTripD(k) ==
  LET q == dvector_pop_back(dv'[k], heap')
  IN  /\ q.ret = last'.arg
      /\ q.d.size_ = dv[k].size_
      /\ q.d.capacity_ >= dv[k].capacity_
      /\ \A j \in 0..(dv[k].size_ - 1) :
           CellAt(q.h, q.d.storage_, j) = CellAt(heap, dv[k].storage_, j)

\* C5 (pop_back returns the last element): a pop_back() on a non-empty
\* container returns the value that was at index size() - 1, decrements size()
\* by one, and leaves the elements at [0, size() - 1) and the capacity as they
\* were; it returns v when the operation before it was push_back(v) on the
\* same object, and after every push_back(v) a pop_back() gives back v, the
\* prior size and the prior elements, without a smaller capacity.
C5_PopBack ==
  [][\A k \in Objs :
       /\ last'.op = "pop_back" /\ last'.obj = k /\ Size(k) > 0 =>
            /\ status' = "running"
            /\ last'.ret = Elem(k, Size(k) - 1)
            /\ Size(k)' = Size(k) - 1
            /\ Capacity(k)' = Capacity(k)
            /\ \A j \in 0..(Size(k) - 2) : CellOf(k, j)' = CellOf(k, j)
            /\ (last.op = "push_back" /\ last.obj = k => last'.ret = last.arg)
       /\ last'.op = "push_back" /\ last'.obj = k /\ status' = "running" =>
            IF kind = "cvector" THEN RoundTripC(k) ELSE RoundTripD(k)]_vars

\* a pop_back() has just returned 1 from a dvector of two elements whose
\* capacity is 2: the element 0 stays
C5_Witness ==
  /\ kind = "dvector" /\ status = "running"
  /\ last.op = "pop_back" /\ last.obj = "a" /\ last.ret = 1
  /\ dv["a"].capacity_ = 2
  /\ Elems("a") = <<0>>

\* C6 (sized construction of cvector): cvector<T, N> k(n) with 0 <= n <= N
\* gives size() = n and every element k[i], 0 <= i < n, equal to T().
C6_CvectorSized ==
  kind = "cvector" /\ last.op = "ctor_n" =>
    /\ Size(last.obj) = last.arg
    /\ \A j \in Rng(0, last.arg) : CellOf(last.obj, j) = construct(Raw, DefaultVal)

\* C7 (sized construction of dvector): dvector<T> k(n) with n >= 0 gives
\* size() = n, capacity() = n and every element equal to T(), with no lifetime
\* error; for n = 0 no cell array is allocated.
C7_DvectorSized ==
  kind = "dvector" /\ last.op = "ctor_n" /\ status # "aborted" =>
    /\ status = "running"
    /\ last.arg >= 0
    /\ last.ev = {}
    /\ Size(last.obj) = last.arg
    /\ Capacity(last.obj) = last.arg
    /\ \A j \in 0..(last.arg - 1) : CellOf(last.obj, j) = construct(Raw, DefaultVal)
    /\ (last.arg = 0 =>
          dv[last.obj].storage_ = Null /\ \A p \in BufIds : ~heap[p].alloc)
    /\ (last.arg > 0 =>
          Valid(heap, dv[last.obj].storage_, 0)
          /\ DOMAIN heap[dv[last.obj].storage_].cells = 0..(last.arg - 1))

\* dvector<T> a(2) has just been constructed: two elements T()
C7_Witness ==
  /\ kind = "dvector" /\ status = "running"
  /\ last.op = "ctor_n" /\ last.obj = "a" /\ last.arg = 2
  /\ Elems("a") = <<DefaultVal, DefaultVal>>

\* C8 (front and back): on a non-empty container front() gives the element at
\* index 0 and back() the element at index size() - 1, and after a write of v
\* through back() the element at index size() - 1 is v.
C8_FrontBack ==
  Size(last.obj) > 0 /\ status # "aborted" =>
    /\ (last.op = "front" => last.ret = Elem(last.obj, 0))
    /\ (last.op = "back" => last.ret = Elem(last.obj, Size(last.obj) - 1))
    /\ (last.op = "back_write" => Elem(last.obj, Size(last.obj) - 1) = last.arg)

\* C9 (precondition violations fail fast): operator[](i) with i outside
\* [0, size()), front() and back() on an empty container, pop_back() on an
\* empty container and push_back on a cvector with size() = N all fail an
\* assertion and change nothing.
C9_FailFast ==
  [][\A k \in Objs :
       /\ last'.obj = k
       /\ \/ last'.op = "index" /\ ~(0 <= last'.arg /\ last'.arg < Size(k))
          \/ last'.op \in {"front", "back", "back_write"} /\ Size(k) = 0
          \/ last'.op = "pop_back" /\ Size(k) = 0
          \/ last'.op = "push_back" /\ kind = "cvector" /\ Size(k) = N
       => status' = "aborted" /\ UNCHANGED <<cv, dv, heap>>]_vars

\* push_back(1), push_back(2), push_back(3) on the cvector c
Pushed123(c) ==
  cvector_emplace_back(cvector_emplace_back(cvector_emplace_back(c, 1).c, 2).c, 3).c

\* C10 (cvector push_back): push_back(v) with size() < N constructs v in the
\* cell at index size(), increments size() by one, returns the new element and
\* leaves every other cell and object as it was; with size() = N it fails the
\* assertion and changes nothing; an empty cvector<T, 3> after push_back of 1,
\* 2 and 3 has size() = 3 = N and the elements 1, 2, 3.
C10_CvectorPushBack ==
  [][\A k \in Objs :
       /\ kind = "cvector" /\ last'.op = "push_back" /\ last'.obj = k =>
            IF cv[k].n < N
            THEN /\ status' = "running"
                 /\ cv'[k].n = cv[k].n + 1
                 /\ cv'[k].storage[cv[k].n] = [live |-> TRUE, val |-> last'.arg]
                 /\ last'.ret = last'.arg
                 /\ \A j \in Cells : j # cv[k].n => cv'[k].storage[j] = cv[k].storage[j]
                 /\ \A o \in Objs : o # k => cv'[o] = cv[o]
            ELSE status' = "aborted" /\ cv' = cv
       /\ IsC(k) /\ cv[k].n = 0 /\ cv[k].storage = cvector_init.storage =>
            /\ Pushed123(cv[k]).n = N
            /\ \A j \in Cells : Pushed123(cv[k]).storage[j] = [live |-> TRUE, val |-> j + 1]]_vars

\* a cvector<T, 3> holds 1, 2, 3 and a further push_back has failed the
\* assertion
C10_Witness ==
  /\ kind = "cvector" /\ ~pair /\ status = "aborted"
  /\ last.op = "push_back" /\ last.obj = "a"
  /\ Elems("a") = <<1, 2, 3>>

\* C11 (cvector resize): resize(i) with 0 <= i <= N sets size() to i, leaves
\* the cells below min(old size, i) as they were, destroys the cells
\* [i, old size), constructs a T() in each of the cells [old size, i) and
\* touches no other cell; with i outside [0, N] it fails the assertion and
\* changes nothing; clear() does what resize(0) does; and after a growing
\* resize, a resize back to the old size gives back the old elements.
C11_CvectorResize ==
  [][\A k \in Objs :
       /\ kind = "cvector" /\ last'.op = "resize" /\ last'.obj = k =>
            IF 0 <= last'.arg /\ last'.arg <= N
            THEN /\ status' = "running"
                 /\ cv'[k].n = last'.arg
                 /\ \A j \in Cells :
                      cv'[k].storage[j] =
                        IF j \in Rng(last'.arg, cv[k].n) THEN Raw
                        ELSE IF j \in Rng(cv[k].n, last'.arg)
                             THEN [live |-> TRUE, val |-> DefaultVal]
                             ELSE cv[k].storage[j]
                 /\ (last'.arg > cv[k].n =>
                       /\ cvector_resize(cv'[k], cv[k].n).c.n = cv[k].n
                       /\ \A j \in Rng(0, cv[k].n) :
                            cvector_resize(cv'[k], cv[k].n).c.storage[j] = cv[k].storage[j])
            ELSE status' = "aborted" /\ cv' = cv
       /\ kind = "cvector" /\ last'.op = "clear" /\ last'.obj = k =>
            /\ cv'[k].n = 0
            /\ cv'[k] = cvector_resize(cv[k], 0).c
            /\ \A j \in Cells :
                 cv'[k].storage[j] = IF j < cv[k].n THEN Raw ELSE cv[k].storage[j]]_vars

\* resize(3) has just grown a cvector that held the one element 1
C11_Witness ==
  /\ kind = "cvector" /\ status = "running"
  /\ last.op = "resize" /\ last.obj = "a" /\ last.arg = 3
  /\ Elems("a") = <<1, DefaultVal, DefaultVal>>

\* the object of the two-object harness that is not k
Other(k) == CHOOSE o \in Objs : o # k

\* C12 (cvector copy assignment): b = a on cvectors of a T that is not
\* trivially copy-assignable assigns min(|b|, |a|) elements, copy-constructs
\* max(0, |a| - |b|) and destroys max(0, |b| - |a|); afterwards b has the size
\* and the elements of a, the cells of b's excess hold no element, no other
\* cell of b has changed, and a is as it was.
C12_CvectorCopyAssign ==
  [][\A k \in Objs :
       kind = "cvector" /\ last'.op = "assign_copy" /\ last'.obj = k =>
         /\ status' = "running"
         /\ on_copy(cv[k], cv[Other(k)]).assigned = Min(cv[k].n, cv[Other(k)].n)
         /\ on_copy(cv[k], cv[Other(k)]).constructed = Max(0, cv[Other(k)].n - cv[k].n)
         /\ on_copy(cv[k], cv[Other(k)]).destroyed = Max(0, cv[k].n - cv[Other(k)].n)
         /\ cv'[k].n = cv[Other(k)].n
         /\ \A j \in Cells :
              cv'[k].storage[j] =
                IF j < cv[Other(k)].n THEN cv[Other(k)].storage[j]
                ELSE IF j < cv[k].n THEN Raw
                ELSE cv[k].storage[j]
         /\ \A j \in Rng(0, cv[Other(k)].n) : cv[Other(k)].storage[j].live
         /\ cv'[Other(k)] = cv[Other(k)]]_vars

\* b = a has just copied the three elements of a into a cvector b
C12_Witness ==
  /\ kind = "cvector" /\ pair /\ status = "running"
  /\ last.op = "assign_copy" /\ last.obj = "b"
  /\ Elems("a") = <<0, 1, 1>>
  /\ Elems("b") = <<0, 1, 1>>

\* C18 (dvector reserve): reserve(n) with n above the capacity leaves capacity
\* n and the size as it was, every element live at its index of a new array
\* with the value it had, and the old array released; with n at most the
\* capacity it changes neither the object nor the heap.
C18_DvectorReserve ==
  [][\A k \in Objs :
       kind = "dvector" /\ last'.op = "reserve" /\ last'.obj = k =>
         IF last'.arg > dv[k].capacity_
         THEN /\ dv'[k].capacity_ = last'.arg
              /\ dv'[k].size_ = dv[k].size_
              /\ dv'[k].storage_ # dv[k].storage_
              /\ heap'[dv'[k].storage_].alloc
              /\ DOMAIN heap'[dv'[k].storage_].cells = 0..(last'.arg - 1)
              /\ \A j \in 0..(dv[k].size_ - 1) :
                   /\ CellAt(heap', dv'[k].storage_, j).live
                   /\ CellAt(heap', dv'[k].storage_, j).val =
                        CellAt(heap, dv[k].storage_, j).val
              /\ \A j \in dv[k].size_..(last'.arg - 1) :
                   CellAt(heap', dv'[k].storage_, j) = Raw
              /\ dv[k].storage_ # Null => ~heap'[dv[k].storage_].alloc
         ELSE dv' = dv /\ heap' = heap]_vars

\* reserve(4) has just moved two elements into an array of four cells
C18_Witness ==
  /\ kind = "dvector" /\ status = "running"
  /\ last.op = "reserve" /\ last.obj = "a" /\ last.arg = 4
  /\ Capacity("a") = 4
  /\ Elems("a") = <<1, 0>>

\* C19 (dvector push_back growth): push_back / emplace_back on a full vector
\* leaves capacity max(2 * old capacity, 1); otherwise capacity and array are
\* the ones before.  In both cases the size grows by one, the reference
\* returned designates the new last element, which holds the value pushed,
\* and the elements before it keep their values.
C19_DvectorPushBack ==
  [][\A k \in Objs :
       kind = "dvector" /\ last'.op = "push_back" /\ last'.obj = k =>
         /\ IF dv[k].size_ = dv[k].capacity_
            THEN dv'[k].capacity_ = Max(2 * dv[k].capacity_, 1)
            ELSE /\ dv'[k].capacity_ = dv[k].capacity_
                 /\ dv'[k].storage_ = dv[k].storage_
         /\ dv[k].capacity_ \in {0, 1, 2} /\ dv[k].size_ = dv[k].capacity_ =>
              dv'[k].capacity_ = <<1, 2, 4>>[dv[k].capacity_ + 1]
         /\ dv'[k].size_ = dv[k].size_ + 1
         /\ CellAt(heap', dv'[k].storage_, dv[k].size_) =
              [live |-> TRUE, val |-> last'.arg]
         /\ last'.ret = last'.arg
         /\ \A j \in 0..(dv[k].size_ - 1) :
              /\ CellAt(heap', dv'[k].storage_, j).live
              /\ CellAt(heap', dv'[k].storage_, j).val =
                   CellAt(heap, dv[k].storage_, j).val]_vars

\* the third push_back has just grown the capacity from two to four
C19_Witness ==
  /\ kind = "dvector" /\ status = "running"
  /\ last.op = "push_back" /\ last.obj = "a" /\ last.arg = 1 /\ last.ret = 1
  /\ Size("a") = 3 /\ Capacity("a") = 4
  /\ Elems("a") = <<0, 1, 1>>

(***************************************************************************)
(* Sequential push_back on a default-constructed dvector: the record of    *)
(* the last operation also counts the calls made and the calls that        *)
(* replaced the array.                                                     *)
(***************************************************************************)
\* the number of push_back calls of the sequence
GrowthLen == 6

\* dvector<T> a;
GrowthInit ==
  /\ kind = "dvector"
  /\ pair = FALSE
  /\ cv = [k \in Objs |-> cvector_none]
  /\ dv = [k \in Objs |-> IF k = "a" THEN dvector_init ELSE dvector_none]
  /\ heap = [p \in BufIds |-> FreeBuf]
  /\ status = "running"
  /\ last = [op |-> "ctor", obj |-> "a", arg |-> NoVal, ret |-> NoVal, ev |-> {},
             pushes |-> 0, reallocs |-> 0]

\* k.push_back(v), one more call of the sequence
GrowthPush(k) ==
  /\ IsD(k) /\ Solo /\ HasRoom(heap, 1) /\ last.pushes < GrowthLen
  /\ \E v \in Vals :
       \E r \in {dvector_emplace_back(dv[k], heap, v)} :
         /\ dv' = [dv EXCEPT ![k] = r.d]
         /\ heap' = r.h
         /\ status' = StatusOf(r.ev)
         /\ last' = [op |-> "push_back", obj |-> k, arg |-> v, ret |-> r.ret,
                     ev |-> r.ev, pushes |-> last.pushes + 1,
                     reallocs |-> last.reallocs +
                                  (IF r.d.storage_ # dv[k].storage_ THEN 1 ELSE 0)]
         /\ UNCHANGED <<kind, pair, cv>>

GrowthNext == GrowthPush("a")

GrowthSpec == GrowthInit /\ [][GrowthNext]_vars

RECURSIVE Pow2(_)
Pow2(e) == IF e = 0 THEN 1 ELSE 2 * Pow2(e - 1)

\* ceil(log2 n), n >= 1
CeilLog2(n) == CHOOSE e \in 0..n : Pow2(e) >= n /\ \A f \in 0..(e - 1) : Pow2(f) < n

\* C20 (dvector amortized growth): along a sequence of push_back calls on a
\* default-constructed dvector the capacity never decreases, and after the
\* k-th call, k >= 1, the size is k, the capacity is the smallest power of two
\* that is at least k, and 1 + ceil(log2 k) calls have replaced the array.
C20_AmortizedGrowth ==
  /\ [](last.pushes >= 1 =>
          /\ dv["a"].size_ = last.pushes
          /\ dv["a"].capacity_ = Pow2(CeilLog2(last.pushes))
          /\ last.reallocs = 1 + CeilLog2(last.pushes))
  /\ [][dv'["a"].capacity_ >= dv["a"].capacity_]_vars

\* the fifth push_back has just replaced the array for the fourth time
C20_Witness ==
  /\ last.op = "push_back" /\ last.pushes = 5 /\ last.reallocs = 4
  /\ dv["a"].capacity_ = 8
  /\ Elems("a") = <<0, 1, 0, 1, 1>>

(***************************************************************************)
(* cvector<int, N>: for a trivially move constructible and trivially move  *)
(* assignable T the chain P0848::move<Base, true> : copy<Base, true> :     *)
(* dtor<Base, true> adds nothing, and cvector(cvector&&) and               *)
(* operator=(cvector&&) are defaulted: storage and n are copied memberwise *)
(* and on_move is never called.                                            *)
(***************************************************************************)
\* the defaulted move of b into the object c: c gets b's members, b keeps them
defaulted_move(c, b) == [c |-> b, b |-> b, ev |-> {}]

\* cvector<int, N> k = std::move(s);
TrivialCtorMove(k, s) ==
  /\ NewC(k) /\ IsC(s) /\ k # s
  /\ \E r \in {defaulted_move(cvector_init, cv[s])} :
       CStep([cv EXCEPT ![k] = r.c, ![s] = r.b], Op("ctor_move", k, NoVal, NoVal, r.ev))

\* k = std::move(s);   requires(movable) = default
TrivialAssignMove(k, s) ==
  /\ IsC(k) /\ IsC(s) /\ k # s
  /\ \E r \in {defaulted_move(cv[k], cv[s])} :
       CStep([cv EXCEPT ![k] = r.c, ![s] = r.b], Op("assign_move", k, NoVal, NoVal, r.ev))

\* two cvector<int, N> objects
TrivialInit ==
  /\ kind = "cvector"
  /\ pair = TRUE
  /\ cv = [k \in Objs |-> cvector_none]
  /\ dv = [k \in Objs |-> dvector_none]
  /\ heap = [p \in BufIds |-> FreeBuf]
  /\ status = "running"
  /\ last = Op("none", "a", NoVal, NoVal, {})

TrivialNext ==
  \/ \E k \in Objs : CCtorDefault(k)
  \/ \E k \in Objs : CCtorList(k)
  \/ \E k \in Objs : CPushBack(k)
  \/ \E k, s \in Objs : TrivialCtorMove(k, s)
  \/ \E k, s \in Objs : TrivialAssignMove(k, s)

TrivialSpec == TrivialInit /\ [][TrivialNext]_vars

\* C16 (cvector move): after b is move-constructed or move-assigned from a,
\* whatever the element type, a.size() == 0 and b has the size and the
\* elements a had.
C16_CvectorMove ==
  [][\A k \in Objs :
       /\ kind = "cvector" /\ last'.obj = k
       /\ last'.op \in {"ctor_move", "assign_move"}
       => /\ cv'[Other(k)].n = 0
          /\ cv'[k].n = cv[Other(k)].n
          /\ \A j \in Rng(0, cv[Other(k)].n) :
               /\ cv'[k].storage[j].live
               /\ cv'[k].storage[j].val = cv[Other(k)].storage[j].val]_vars

(***************************************************************************)
(* Two dvectors built from literal lists of up to ListLen values, copied   *)
(* and moved into each other.                                              *)
(***************************************************************************)
\* the longest literal list: { std::in_place_type<T>, 1, 2, 3 }
ListLen == 3

\* dvector<T> k = { std::in_place, v1, .., vm }
PairCtorList(k) ==
  /\ NewD(k) /\ HasRoom(heap, 1)
  /\ \E m \in 1..ListLen : \E ts \in [1..m -> Vals] :
       \E r \in {dvector_list(heap, ts)} :
         DStep([dv EXCEPT ![k] = r.d], r.h, Op("ctor_list", k, m, NoVal, r.ev))

PairInit ==
  /\ kind = "dvector"
  /\ pair = TRUE
  /\ cv = [k \in Objs |-> cvector_none]
  /\ dv = [k \in Objs |-> dvector_none]
  /\ heap = [p \in BufIds |-> FreeBuf]
  /\ status = "running"
  /\ last = Op("none", "a", NoVal, NoVal, {})

PairNext ==
  \/ \E k \in Objs : DCtorDefault(k)
  \/ \E k \in Objs : PairCtorList(k)
  \/ \E k, s \in Objs : DCtorCopy(k, s)
  \/ \E k, s \in Objs : DCtorMove(k, s)
  \/ \E k, s \in Objs : DAssignCopy(k, s)
  \/ \E k, s \in Objs : DAssignMove(k, s)
  \/ \E k \in Objs : DPopBack(k)
  \/ \E k \in Objs : DClear(k)

PairSpec == PairInit /\ [][PairNext]_vars


\* the addresses of the allocated arrays
Allocated(h) == {p \in BufIds : h[p].alloc}

\* C13 (dvector copy assignment, operation counts): copy-assigning a dvector
\* built from a 3-value list into one built from a 2-value list leaves size 3
\* with one element copy-constructed and two copy-assigned; copy-assigning one
\* built from a 2-value list into one built from a 3-value list leaves size 2
\* with two elements assigned and one destroyed.
C13_DvectorCopyCounts ==
  [][\A k \in Objs :
       kind = "dvector" /\ last'.op = "assign_copy" /\ last'.obj = k =>
         /\ /\ dv[Other(k)].size_ = 3 /\ dv[Other(k)].capacity_ = 3
            /\ dv[k].size_ = 2 /\ dv[k].capacity_ = 2
            => /\ dv'[k].size_ = 3
               /\ dvector_assign_copy(dv[k], heap, dv[Other(k)]).constructed = 1
               /\ dvector_assign_copy(dv[k], heap, dv[Other(k)]).assigned = 2
         /\ /\ dv[Other(k)].size_ = 2 /\ dv[Other(k)].capacity_ = 2
            /\ dv[k].size_ = 3 /\ dv[k].capacity_ = 3
            => /\ dv'[k].size_ = 2
               /\ dvector_assign_copy(dv[k], heap, dv[Other(k)]).assigned = 2
               /\ dvector_assign_copy(dv[k], heap, dv[Other(k)]).destroyed = 1]_vars

\* C14 (dvector copy assignment): after b = a, b has the size and the elements
\* of a, a and its array are as they were, and b's capacity is the larger of
\* its old capacity and a's.  If the old capacity was below a's, b's array is
\* a newly allocated one and the old one is released, every old element was
\* destroyed, every element of a was copy-constructed and none assigned, and
\* no cell outside an array was touched; otherwise b keeps its array, no
\* array is allocated or released, and the cells beyond both sizes are
\* untouched.
C14_DvectorCopyAssign ==
  [][\A k \in Objs :
       kind = "dvector" /\ last'.op = "assign_copy" /\ last'.obj = k =>
         /\ status' = "running"
         /\ dv'[k].size_ = dv[Other(k)].size_
         /\ \A j \in 0..(dv[Other(k)].size_ - 1) :
              /\ CellAt(heap', dv'[k].storage_, j).live
              /\ CellAt(heap', dv'[k].storage_, j).val =
                   CellAt(heap, dv[Other(k)].storage_, j).val
         /\ dv'[Other(k)] = dv[Other(k)]
         /\ dv[Other(k)].storage_ # Null =>
              heap'[dv[Other(k)].storage_] = heap[dv[Other(k)].storage_]
         /\ dv'[k].capacity_ = Max(dv[k].capacity_, dv[Other(k)].capacity_)
         /\ IF dv[k].capacity_ < dv[Other(k)].capacity_
            THEN /\ Allocated(heap') =
                      (Allocated(heap) \ {dv[k].storage_}) \cup {dv'[k].storage_}
                 /\ dv'[k].storage_ # dv[Other(k)].storage_
                 /\ DOMAIN heap'[dv'[k].storage_].cells = 0..(dv'[k].capacity_ - 1)
                 /\ \A j \in dv'[k].size_..(dv'[k].capacity_ - 1) :
                      CellAt(heap', dv'[k].storage_, j) = Raw
                 /\ dvector_assign_copy(dv[k], heap, dv[Other(k)]).destroyed = dv[k].size_
                 /\ dvector_assign_copy(dv[k], heap, dv[Other(k)]).constructed =
                      dv[Other(k)].size_
                 /\ dvector_assign_copy(dv[k], heap, dv[Other(k)]).assigned = 0
            ELSE /\ dv'[k].storage_ = dv[k].storage_
                 /\ Allocated(heap') = Allocated(heap)
                 /\ \A j \in Max(dv[k].size_, dv[Other(k)].size_)..(dv[k].capacity_ - 1) :
                      CellAt(heap', dv'[k].storage_, j) = CellAt(heap, dv[k].storage_, j)
                 /\ \A j \in dv[Other(k)].size_..(dv[k].size_ - 1) :
                      ~CellAt(heap', dv'[k].storage_, j).live]_vars

\* b = a has just copied two elements into b's array of three cells
C14_Witness ==
  /\ kind = "dvector" /\ pair /\ status = "running"
  /\ last.op = "assign_copy" /\ last.obj = "b"
  /\ Capacity("a") = 2 /\ Capacity("b") = 3
  /\ Elems("a") = <<0, 1>>
  /\ Elems("b") = <<0, 1>>

\* C17 (dvector move): after b is move-constructed or move-assigned from a
\* distinct a, a has size 0, capacity 0 and no array; b has the size, the
\* capacity and the array a had, with its cells as they were.  In the
\* assignment b's previous array is released, and an element left alive in it
\* was outside b's previous size.
C17_DvectorMove ==
  [][\A k \in Objs :
       /\ kind = "dvector" /\ last'.obj = k
       /\ last'.op \in {"ctor_move", "assign_move"}
       => /\ status' = "running"
          /\ dv'[Other(k)].size_ = 0
          /\ dv'[Other(k)].capacity_ = 0
          /\ dv'[Other(k)].storage_ = Null
          /\ dv'[k].size_ = dv[Other(k)].size_
          /\ dv'[k].capacity_ = dv[Other(k)].capacity_
          /\ dv'[k].storage_ = dv[Other(k)].storage_
          /\ dv[Other(k)].storage_ # Null =>
               heap'[dv[Other(k)].storage_] = heap[dv[Other(k)].storage_]
          /\ last'.op = "assign_move" =>
               /\ Allocated(heap') = Allocated(heap) \ {dv[k].storage_}
               /\ "leak" \in last'.ev =>
                    \E j \in dv[k].size_..(dv[k].capacity_ - 1) :
                      CellAt(heap, dv[k].storage_, j).live
          /\ /\ last'.op = "assign_move"
             /\ dv[Other(k)].size_ = 1 /\ dv[Other(k)].capacity_ = 1 /\ dv[k].size_ = 3
             => dv'[k].size_ = 1 /\ dv'[k].capacity_ = 1]_vars

\* b = std::move(a) has just given b the one-element array of a
C17_Witness ==
  /\ kind = "dvector" /\ pair /\ status = "running"
  /\ last.op = "assign_move" /\ last.obj = "b"
  /\ Size("a") = 0 /\ Capacity("a") = 0 /\ dv["a"].storage_ = Null
  /\ Capacity("b") = 1 /\ Elems("b") = <<1>>
  /\ Cardinality(Allocated(heap)) = 1


(***************************************************************************)
(* Copy, then mutate: a is built from a literal list, b is copy            *)
(* constructed from a, and from then on either object is written, grown,   *)
(* shrunk, cleared or copy-assigned from the other.                        *)
(***************************************************************************)
\* k[i] = v on a dvector, 0 <= i < size_
DeepWrite(k) ==
  /\ IsD(k)
  /\ \E i \in 0..(dv[k].size_ - 1) : \E v \in Vals :
       DStep(dv,
             Apply(heap, dv[k].storage_,
                   [j \in {i} |-> assign(CellAt(heap, dv[k].storage_, j), v)]),
             Op("write", k, i, NoVal,
                AtEv(heap, dv[k].storage_, i, assignEv(CellAt(heap, dv[k].storage_, i)))))

\* k.resize(n)
DeepResize(k) ==
  /\ IsD(k) /\ HasRoom(heap, 1)
  /\ \E n \in 0..Cap :
       \E r \in {dvector_resize(dv[k], heap, n)} :
         DStep([dv EXCEPT ![k] = r.d], r.h, Op("resize", k, n, NoVal, r.ev))

\* k.reserve(n)
DeepReserve(k) ==
  /\ IsD(k) /\ HasRoom(heap, 1)
  /\ \E n \in 0..Cap :
       \E r \in {dvector_reserve(dv[k], heap, n)} :
         DStep([dv EXCEPT ![k] = r.d], r.h, Op("reserve", k, n, NoVal, r.ev))

\* k[i] = v on a cvector, 0 <= i < n
DeepCWrite(k) ==
  /\ IsC(k)
  /\ \E i \in Rng(0, cv[k].n) : \E v \in Vals :
       CStep([cv EXCEPT ![k].storage[i] = assign(@, v)],
             Op("write", k, i, NoVal, assignEv(cv[k].storage[i])))

\* k.resize(i) on a cvector, 0 <= i <= N
DeepCResize(k) ==
  /\ IsC(k)
  /\ \E i \in 0..N :
       \E r \in {cvector_resize(cv[k], i)} :
         CStep([cv EXCEPT ![k] = r.c], Op("resize", k, i, NoVal, r.ev))

DeepInit ==
  /\ kind \in {"cvector", "dvector"}
  /\ pair = TRUE
  /\ cv = [k \in Objs |-> cvector_none]
  /\ dv = [k \in Objs |-> dvector_none]
  /\ heap = [p \in BufIds |-> FreeBuf]
  /\ status = "running"
  /\ last = Op("none", "a", NoVal, NoVal, {})

DeepNext ==
  \/ CCtorList("a")
  \/ CCtorCopy("b", "a")
  \/ \E k, s \in Objs : CAssignCopy(k, s)
  \/ \E k \in Objs : DeepCWrite(k)
  \/ \E k \in Objs : CPushBack(k)
  \/ \E k \in Objs : CPopBack(k)
  \/ \E k \in Objs : DeepCResize(k)
  \/ \E k \in Objs : CClear(k)
  \/ DCtorList("a")
  \/ DCtorCopy("b", "a")
  \/ \E k, s \in Objs : DAssignCopy(k, s)
  \/ \E k \in Objs : DeepWrite(k)
  \/ \E k \in Objs : DPushBack(k)
  \/ \E k \in Objs : DPopBack(k)
  \/ \E k \in Objs : DeepResize(k)
  \/ \E k \in Objs : DClear(k)
  \/ \E k \in Objs : DeepReserve(k)

DeepSpec == DeepInit /\ [][DeepNext]_vars

\* the operations that change one object
Mutators == {"write", "push_back", "pop_back", "resize", "clear", "reserve"}

ShrinkLen == 5

\* dvector<T> a;
ShrinkInit ==
  /\ kind = "dvector"
  /\ pair = FALSE
  /\ cv = [k \in Objs |-> cvector_none]
  /\ dv = [k \in Objs |-> IF k = "a" THEN dvector_init ELSE dvector_none]
  /\ heap = [p \in BufIds |-> FreeBuf]
  /\ status = "running"
  /\ last = Op("ctor", "a", NoVal, NoVal, {})

\* k.push_back(v)
ShrinkPush(k) ==
  /\ IsD(k) /\ HasRoom(heap, 1) /\ dv[k].size_ < ShrinkLen
  /\ \E v \in Vals :
       \E r \in {dvector_emplace_back(dv[k], heap, v)} :
         DStep([dv EXCEPT ![k] = r.d], r.h, Op("push_back", k, v, r.ret, r.ev))

ShrinkNext ==
  \/ ShrinkPush("a")
  \/ DPopBack("a")
  \/ DShrinkToFit("a")

ShrinkSpec == ShrinkInit /\ [][ShrinkNext]_vars

\* C21 (dvector shrink_to_fit): with capacity above the size, shrink_to_fit()
\* leaves capacity equal to the size, the size and every element value as
\* they were, the elements in a newly allocated array of exactly that many
\* cells (no array when the size is 0) and the old array released; with
\* capacity equal to the size it changes neither the object nor the heap.
C21_ShrinkToFit ==
  [][\A k \in Objs :
       kind = "dvector" /\ last'.op = "shrink_to_fit" /\ last'.obj = k =>
         IF dv[k].capacity_ > dv[k].size_
         THEN /\ dv'[k].capacity_ = dv[k].size_
              /\ dv'[k].size_ = dv[k].size_
              /\ \A j \in 0..(dv[k].size_ - 1) :
                   /\ CellAt(heap', dv'[k].storage_, j).live
                   /\ CellAt(heap', dv'[k].storage_, j).val =
                        CellAt(heap, dv[k].storage_, j).val
              /\ dv'[k].storage_ # dv[k].storage_
              /\ ~heap'[dv[k].storage_].alloc
              /\ IF dv[k].size_ = 0 THEN dv'[k].storage_ = Null
                 ELSE /\ heap'[dv'[k].storage_].alloc
                      /\ DOMAIN heap'[dv'[k].storage_].cells = 0..(dv[k].size_ - 1)
         ELSE dv' = dv /\ heap' = heap]_vars

\* after five pushes shrink_to_fit() has just cut the capacity from 8 to 5
C21_Witness ==
  /\ kind = "dvector" /\ status = "running"
  /\ last.op = "shrink_to_fit" /\ last.obj = "a"
  /\ Size("a") = 5 /\ Capacity("a") = 5
  /\ Elems("a") = <<0, 1, 0, 1, 1>>


\* C22 (dvector resize and clear): resize(n), n >= 0, leaves capacity n if n
\* was above the capacity and the capacity as it was otherwise, size n, the
\* elements below min(old size, n) with their values, and the elements from
\* the old size up to n equal to T().  clear() leaves size 0 and the capacity
\* as it was, and a second clear() changes neither the object nor the heap.
C22_DvectorResize ==
  [][\A k \in Objs :
       /\ kind = "dvector" /\ last'.op = "resize" /\ last'.obj = k /\ last'.arg >= 0 =>
            /\ dv'[k].capacity_ =
                 IF last'.arg > dv[k].capacity_ THEN last'.arg ELSE dv[k].capacity_
            /\ dv'[k].size_ = last'.arg
            /\ \A j \in 0..(Min(dv[k].size_, last'.arg) - 1) :
                 /\ CellAt(heap', dv'[k].storage_, j).live
                 /\ CellAt(heap', dv'[k].storage_, j).val =
                      CellAt(heap, dv[k].storage_, j).val
            /\ \A j \in dv[k].size_..(last'.arg - 1) :
                 CellAt(heap', dv'[k].storage_, j) = [live |-> TRUE, val |-> DefaultVal]
       /\ kind = "dvector" /\ last'.op = "clear" /\ last'.obj = k =>
            /\ dv'[k].size_ = 0
            /\ dv'[k].capacity_ = dv[k].capacity_
            /\ dv'[k].storage_ = dv[k].storage_
            /\ dvector_clear(dv'[k], heap').d = dv'[k]
            /\ dvector_clear(dv'[k], heap').h = heap']_vars

\* resize(3) has just grown a one-element dvector to capacity 3
C22_Witness ==
  /\ kind = "dvector" /\ status = "running"
  /\ last.op = "resize" /\ last.obj = "a" /\ last.arg = 3
  /\ Capacity("a") = 3
  /\ Elems("a") = <<1, DefaultVal, DefaultVal>>


\* C23 (literal-list construction): wherever an object can be constructed,
\* constructing a cvector from the values v1..vm, m <= N, or a dvector from v1..vm gives
\* size m with element i equal to vi, in argument order; the dvector has
\* capacity m, in the one array the constructor allocates, and no element is
\* moved on the way.  A construction step from a list leaves the size, and
\* for a dvector the capacity, equal to the length of the list, and no
\* cvector is constructed from more than N values.
C23_ListConstruction ==
  /\ [](/\ (\E k \in Objs : NewC(k)) =>
             \A m \in 1..N : \A ts \in [1..m -> Vals] :
               \A r \in {cvector_list(ts)} :
                 /\ r.c.n = m
                 /\ r.ev = {}
                 /\ \A j \in Cells :
                      r.c.storage[j] =
                        IF j < m THEN [live |-> TRUE, val |-> ts[j + 1]] ELSE Raw
        /\ (\E k \in Objs : NewD(k)) /\ HasRoom(heap, 1) =>
             \A m \in 1..Cap : \A ts \in [1..m -> Vals] :
               \A r \in {dvector_list(heap, ts)} :
                 /\ r.d.size_ = m
                 /\ r.d.capacity_ = m
                 /\ r.ev = {}
                 /\ r.d.storage_ = NewId(heap)
                 /\ Allocated(r.h) = Allocated(heap) \cup {r.d.storage_}
                 /\ r.h[r.d.storage_].cells =
                      [j \in 0..(m - 1) |-> [live |-> TRUE, val |-> ts[j + 1]]])
  /\ [][\A k \in Objs :
          last'.op = "ctor_list" /\ last'.obj = k =>
            /\ Size(k)' = last'.arg
            /\ kind = "dvector" => Capacity(k)' = last'.arg
            /\ kind = "cvector" => last'.arg <= N]_vars

\* a dvector has just been constructed from the list 1, 0, 1
C23_Witness ==
  /\ kind = "dvector" /\ status = "running"
  /\ last.op = "ctor_list" /\ last.obj = "a" /\ last.arg = 3
  /\ Capacity("a") = 3
  /\ Elems("a") = <<1, 0, 1>>


(***************************************************************************)
(* Iterators.  A cvector iterator it<U> holds the vector p and an index i; *)
(* a dvector iterator storage_iterator<U> holds a pointer ptr into the     *)
(* array: the array's address buf and the offset off of the cell.          *)
(***************************************************************************)
\* begin() { return {this, 0}; }
it_begin(k) == [p |-> k, i |-> 0]

\* a faulty end(): the capacity instead of the size
it_end_capacity(k, c) == [p |-> k, i |-> N]

\* end() { return {this, this->n}; }
it_end(k, c) == [p |-> k, i |-> c.n]

\* operator+(a, n), operator-(a, n) as it_plus(a, -n)
it_plus(a, n) == [p |-> a.p, i |-> a.i + n]

\* operator-(b): i - b.i
it_diff(a, b) == a.i - b.i

\* operator==(b): i == b.i
it_eq(a, b) == a.i = b.i

\* operator<=>(b): i <=> b.i
it_less(a, b) == a.i < b.i

\* operator[](n): (*p)[i + n]; operator*() is the same with n = 0
it_at(a, n) == a.i + n

\* for (a = begin(); a != e; ++a) visit *a : the indices handed to (*p)[...]
RECURSIVE it_walk(_, _)
it_walk(a, e) ==
  IF it_eq(a, e) THEN <<>> ELSE <<it_at(a, 0)>> \o it_walk(it_plus(a, 1), e)

\* the same from std::reverse_iterator(e) to std::reverse_iterator(b), whose
\* operator* is *--tmp
RECURSIVE it_rwalk(_, _)
it_rwalk(e, b) ==
  IF it_eq(e, b) THEN <<>>
  ELSE <<it_at(it_plus(e, -1), 0)>> \o it_rwalk(it_plus(e, -1), b)

\* begin() { return {storage_}; }
st_begin(d) == [buf |-> d.storage_, off |-> 0]

\* end() { return {storage_ + size_}; }
st_end(d) == [buf |-> d.storage_, off |-> d.size_]

\* operator+(n), operator-(n) as st_plus(a, -n)
st_plus(a, n) == [buf |-> a.buf, off |-> a.off + n]

\* operator-(b): int(ptr - b.ptr), for two pointers into one array
st_diff(a, b) == a.off - b.off

\* operator==(b): ptr == b.ptr
st_eq(a, b) == a.buf = b.buf /\ a.off = b.off

\* the cell operator[](n) designates: ptr[n]; operator*() is the same with n = 0
st_at(h, a, n) == CellAt(h, a.buf, a.off + n)

\* for (a = begin(); a != e; ++a) visit *a : the offsets of the cells read
RECURSIVE st_walk(_, _)
st_walk(a, e) ==
  IF st_eq(a, e) THEN <<>> ELSE <<a.off>> \o st_walk(st_plus(a, 1), e)

RECURSIVE st_rwalk(_, _)
st_rwalk(e, b) ==
  IF st_eq(e, b) THEN <<>> ELSE <<e.off - 1>> \o st_rwalk(st_plus(e, -1), b)

\* the indices in w are read through the cvector's operator[], which asserts
CVisit(k, name, w) ==
  IF \A x \in 1..Len(w) : 0 <= w[x] /\ w[x] < cv[k].n
  THEN CStep(cv, Op(name, k, NoVal, w,
                    UNION {readEv(cv[k].storage[w[x]]) : x \in 1..Len(w)}))
  ELSE Abort(Op(name, k, NoVal, NoVal, {}))

\* for (auto&& x : k) on a cvector
CIterate(k) ==
  /\ IsC(k)
  /\ \E w \in {it_walk(it_begin(k), it_end(k, cv[k]))} : CVisit(k, "iterate", w)

\* for (r = k.rbegin(); r != k.rend(); ++r) on a cvector
CIterateReverse(k) ==
  /\ IsC(k)
  /\ \E w \in {it_rwalk(it_end(k, cv[k]), it_begin(k))} : CVisit(k, "riterate", w)

\* the cells at the offsets in w of the array of k are read
DVisit(k, name, w) ==
  DStep(dv, heap,
        Op(name, k, NoVal, w,
           UNION {AtEv(heap, dv[k].storage_, w[x],
                       readEv(CellAt(heap, dv[k].storage_, w[x]))) : x \in 1..Len(w)}))

\* for (auto&& x : k) on a dvector
DIterate(k) ==
  /\ IsD(k)
  /\ \E w \in {st_walk(st_begin(dv[k]), st_end(dv[k]))} : DVisit(k, "iterate", w)

\* for (r = k.rbegin(); r != k.rend(); ++r) on a dvector
DIterateReverse(k) ==
  /\ IsD(k)
  /\ \E w \in {st_rwalk(st_end(dv[k]), st_begin(dv[k]))} : DVisit(k, "riterate", w)

\* one object of either template
IterInit ==
  /\ kind \in {"cvector", "dvector"}
  /\ pair = FALSE
  /\ cv = [k \in Objs |-> cvector_none]
  /\ dv = [k \in Objs |-> dvector_none]
  /\ heap = [p \in BufIds |-> FreeBuf]
  /\ status = "running"
  /\ last = Op("none", "a", NoVal, NoVal, {})

IterNext ==
  \/ CCtorDefault("a")
  \/ CCtorList("a")
  \/ CPushBack("a")
  \/ CPopBack("a")
  \/ CIterate("a")
  \/ CIterateReverse("a")
  \/ DCtorDefault("a")
  \/ DCtorList("a")
  \/ DPushBack("a")
  \/ DPopBack("a")
  \/ DIterate("a")
  \/ DIterateReverse("a")

IterSpec == IterInit /\ [][IterNext]_vars

\* C24 (iteration covers the live prefix): for a live vector v of either
\* template end() - begin() == size(); *(begin() + j) and begin()[j] designate
\* v[j] for 0 <= j < size(); end()[-1] and *(end() - 1) designate
\* v[size() - 1]; a traversal from begin() to end() reads the indices
\* 0..size()-1 in order, one from rbegin() to rend() reads them in reverse
\* order, and neither fails an assertion nor reads a cell without an element.
C24_Iteration ==
  /\ [](/\ kind = "cvector" /\ cv["a"].alive =>
             /\ it_diff(it_end("a", cv["a"]), it_begin("a")) = Size("a")
             /\ \A j \in 0..(Size("a") - 1) :
                  /\ it_at(it_plus(it_begin("a"), j), 0) = j
                  /\ it_at(it_begin("a"), j) = j
             /\ Size("a") > 0 =>
                  /\ it_at(it_end("a", cv["a"]), -1) = Size("a") - 1
                  /\ it_at(it_plus(it_end("a", cv["a"]), -1), 0) = Size("a") - 1
        /\ kind = "dvector" /\ dv["a"].alive =>
             /\ st_diff(st_end(dv["a"]), st_begin(dv["a"])) = Size("a")
             /\ \A j \in 0..(Size("a") - 1) :
                  /\ st_plus(st_begin(dv["a"]), j) = [buf |-> dv["a"].storage_, off |-> j]
                  /\ st_at(heap, st_plus(st_begin(dv["a"]), j), 0) = CellOf("a", j)
                  /\ st_at(heap, st_begin(dv["a"]), j) = CellOf("a", j)
             /\ Size("a") > 0 =>
                  /\ st_at(heap, st_end(dv["a"]), -1) = CellOf("a", Size("a") - 1)
                  /\ st_at(heap, st_plus(st_end(dv["a"]), -1), 0) =
                       CellOf("a", Size("a") - 1))
  /\ [][/\ last'.op = "iterate" =>
             /\ status' = "running"
             /\ last'.ret = [x \in 1..Size("a") |-> x - 1]
        /\ last'.op = "riterate" =>
             /\ status' = "running"
             /\ last'.ret = [x \in 1..Size("a") |-> Size("a") - x]]_vars

\* a traversal has just read the three elements of a cvector in order
C24_Witness ==
  /\ kind = "cvector" /\ status = "running"
  /\ last.op = "iterate" /\ last.ret = <<0, 1, 2>>
  /\ Elems("a") = <<3, 1, 2>>


(***************************************************************************)
(* The is_trivially_* traits of cvector<T, N> as a function of those of T. *)
(* t tells, for each special member of T, whether it is defaulted (TRUE)   *)
(* or user-provided (FALSE).  A defaulted member of a class is trivial     *)
(* when the members it selects in every base and data member are trivial;  *)
(* a user-provided one never is; the constructor traits also need a        *)
(* trivial destructor.                                                     *)
(***************************************************************************)
Members == {"dtor", "copy_ctor", "move_ctor", "copy_assign", "move_assign"}

\* the element types T<dtor, copy_ctor, move_ctor, copy, move> of the trait test
ElementTypes == [Members -> BOOLEAN]

\* std::is_trivially_destructible_v<T>, ..., std::is_trivially_move_assignable_v<T>
T_trait(t, x) ==
  IF x \in {"copy_ctor", "move_ctor"} THEN t[x] /\ t["dtor"] ELSE t[x]

\* the special member x of union storage<T>: P0848_MAKE_DTOR / _COPY / _MOVE
\* default it when the trait of T holds; operator=(const type&) is defaulted
\* when copyable, operator=(type&&) when movable, and both are
\* is_trivially_copy_assignable_v<T>; a defaulted assignment of the union is
\* trivial only if that of T is
storage_trait(t, x) ==
  IF x = "copy_assign" THEN T_trait(t, "copy_assign") /\ t["copy_assign"]
  ELSE IF x = "move_assign" THEN T_trait(t, "copy_assign") /\ t["move_assign"]
  ELSE T_trait(t, x)

\* cvector_impl declares no special member: each is implicit, and trivial when
\* that of its member storage[N] is
impl_trait(t, x) == storage_trait(t, x)

\* P0848::dtor / copy / move add ~dtor() { on_dtor(); }, copy(const copy&) and
\* move(move&&) when the trait of T does not hold, and default the rest;
\* cvector defaults its constructors, and its assignments when copyable
\* (is_trivially_copy_assignable_v<T>) resp. movable
\* (is_trivially_move_assignable_v<T>)
cvector_member(t, x) == IF T_trait(t, x) THEN impl_trait(t, x) ELSE FALSE

\* std::is_trivially_destructible_v<cvector<T, N>>, ...
cvector_trait(t, x) ==
  IF x \in {"copy_ctor", "move_ctor"}
  THEN cvector_member(t, x) /\ cvector_member(t, "dtor")
  ELSE cvector_member(t, x)

\* one element type of the truth table
TraitInit ==
  /\ kind = "cvector"
  /\ pair = FALSE
  /\ cv = [k \in Objs |-> cvector_none]
  /\ dv = [k \in Objs |-> dvector_none]
  /\ heap = [p \in BufIds |-> FreeBuf]
  /\ status = "running"
  /\ \E t \in ElementTypes :
       last = [op |-> "none", obj |-> "a", arg |-> NoVal, ret |-> NoVal, ev |-> {},
               T |-> t]

\* using U = T<...>; using V = ce::cvector<U, 8>; one trait of U and of V
TraitCheck ==
  /\ last.op = "none"
  /\ \E x \in Members :
       /\ last' = [op |-> "trait", obj |-> "a", arg |-> x,
                   ret |-> <<T_trait(last.T, x), cvector_trait(last.T, x)>>,
                   ev |-> {}, T |-> last.T]
       /\ UNCHANGED <<kind, pair, cv, dv, heap, status>>

TraitNext == TraitCheck

TraitSpec == TraitInit /\ [][TraitNext]_vars

\* C26 (trait propagation): for each of the 32 element types of the truth
\* table, each of the five is_trivially_* traits of cvector<T, N> equals the
\* same trait of T.
C26_TraitPropagation ==
  last.op = "trait" => last.ret[1] = last.ret[2]


\* C30 (cvector cursor equality): two cvector iterators compare equal if and
\* only if they refer to the same container and the same index; begin() of
\* one cvector never compares equal to begin() of another.
C30_CursorEquality ==
  kind = "cvector" /\ cv["a"].alive /\ cv["b"].alive =>
    /\ \A k, s \in Objs : \A i \in 0..cv[k].n : \A j \in 0..cv[s].n :
         it_eq(it_plus(it_begin(k), i), it_plus(it_begin(s), j)) <=> (k = s /\ i = j)
    /\ ~it_eq(it_begin("a"), it_begin("b"))


\* the dvector k owns its array: storage_ is null exactly when capacity_ is 0,
\* otherwise it designates an allocated array of capacity_ cells that no
\* other dvector points to
Owns(k) ==
  /\ dv[k].storage_ = Null <=> dv[k].capacity_ = 0
  /\ dv[k].storage_ # Null =>
       /\ dv[k].storage_ \in Allocated(heap)
       /\ DOMAIN heap[dv[k].storage_].cells = 0..(dv[k].capacity_ - 1)
       /\ \A s \in Objs \ {k} : dv[s].alive => dv[s].storage_ # dv[k].storage_
  /\ dv[k].size_ > 0 => dv[k].storage_ # Null

\* C27 (dvector buffer ownership): after any sequence of operations that ran
\* to completion on distinct vectors, the storage pointer of every dvector is
\* null exactly when its capacity is 0; when it is not null it designates an
\* allocated array of exactly capacity() cells that no other dvector points
\* to; and a dvector with size() > 0 has a non-null pointer.
C27_BufferOwnership ==
  Running /\ kind = "dvector" => \A k \in Objs : dv[k].alive => Owns(k)

\* both vectors hold an array of their own after a copy construction
C27_Witness ==
  /\ Running /\ kind = "dvector" /\ last.op = "ctor_copy"
  /\ dv["a"].alive /\ dv["b"].alive
  /\ dv["a"].storage_ # Null /\ dv["b"].storage_ # Null
  /\ dv["a"].storage_ # dv["b"].storage_


(***************************************************************************)
(* One dvector that is move-assigned to itself.                            *)
(***************************************************************************)
\* m = std::exchange(b.m, x) where b is *this: b.m becomes x, then m (the same
\* member) is assigned the value exchange returned, the one it had before
exchange_self(m, x) == m

\* operator=(dvector&& b) with b == *this: clear(); delete [] storage_; then
\* the three exchanges on the vector's own members
dvector_assign_move_self(d, h) ==
  The({The({[d |-> [c.d EXCEPT !.capacity_ = exchange_self(c.d.capacity_, 0),
                               !.size_ = exchange_self(c.d.size_, 0),
                               !.storage_ = exchange_self(c.d.storage_, Null)],
             h |-> r.h, ev |-> c.ev \cup r.ev] :
              r \in {delete_array(c.h, d.storage_)}}) :
         c \in {dvector_clear(d, h)}})

\* k = std::move(k);
DAssignMoveSelf(k) ==
  /\ IsD(k)
  /\ \E r \in {dvector_assign_move_self(dv[k], heap)} :
       DStep([dv EXCEPT ![k] = r.d], r.h, Op("assign_move_self", k, NoVal, NoVal, r.ev))

\* push_back(const T& t) where t is the element at storage_[i] of the array at
\* p: a full vector reserves first, and t is read after that
dvector_push_back_ref(d, h, p, i) ==
  The({[d |-> [g.d EXCEPT !.size_ = g.d.size_ + 1],
        h |-> g.h,
        reads |-> IF Valid(g.h, p, i) THEN read(CellAt(g.h, p, i)) ELSE Vals,
        ev |-> g.ev \cup AtEv(g.h, p, i, readEv(CellAt(g.h, p, i)))
                    \cup AtEv(g.h, g.d.storage_, g.d.size_,
                              constructEv(CellAt(g.h, g.d.storage_, g.d.size_)))] :
         g \in {IF d.size_ = d.capacity_
                THEN dvector_reserve(d, h, Max(2 * d.capacity_, 1))
                ELSE Same(d, h)}})

\* k.push_back(k[i])
DPushBackSelf(k) ==
  /\ IsD(k) /\ HasRoom(heap, 1) /\ grown(dv[k]) <= Cap
  /\ \E i \in 0..(dv[k].size_ - 1) :
       \E r \in {dvector_push_back_ref(dv[k], heap, dv[k].storage_, i)} :
         \E v \in r.reads :
           DStep([dv EXCEPT ![k] = r.d],
                 Apply(r.h, r.d.storage_,
                       [j \in {r.d.size_ - 1} |->
                          construct(CellAt(r.h, r.d.storage_, j), v)]),
                 Op("push_back_self", k, i, v, r.ev))

SelfInit ==
  /\ kind = "dvector"
  /\ pair = FALSE
  /\ cv = [k \in Objs |-> cvector_none]
  /\ dv = [k \in Objs |-> dvector_none]
  /\ heap = [p \in BufIds |-> FreeBuf]
  /\ status = "running"
  /\ last = Op("none", "a", NoVal, NoVal, {})

SelfNext ==
  \/ DCtorDefault("a")
  \/ DCtorList("a")
  \/ DPushBack("a")
  \/ DPopBack("a")
  \/ DClear("a")
  \/ DAssignMoveSelf("a")
  \/ DPushBackSelf("a")
  \/ DDtor("a")

SelfSpec == SelfInit /\ [][SelfNext]_vars

\* C28 (self-move-assignment): v = std::move(v) leaves v valid: its storage
\* pointer does not designate a released array, its capacity is 0 whenever it
\* owns no array, and destroying v releases each array at most once.
C28_SelfMoveAssign ==
  /\ last.op = "assign_move_self" =>
       /\ dv[last.obj].storage_ = Null \/ dv[last.obj].storage_ \in Allocated(heap)
       /\ dv[last.obj].storage_ \notin Allocated(heap) => dv[last.obj].capacity_ = 0
  /\ last.op = "dtor" => "ub" \notin last.ev


\* C29 (self-referential append): for a dvector v with size() == capacity()
\* > 0, v.push_back(v[i]) appends a copy of the value v[i] held before the
\* call, and the argument is never read from a moved-from cell or from a
\* released array.
C29_SelfAppend ==
  [][\A k \in Objs :
       /\ IsD(k) /\ dv[k].size_ = dv[k].capacity_ /\ dv[k].size_ > 0
       /\ last'.op = "push_back_self" /\ last'.obj = k
       => /\ "ub" \notin last'.ev
          /\ dv'[k].size_ = dv[k].size_ + 1
          /\ CellAt(heap', dv'[k].storage_, dv[k].size_).val
               = CellAt(heap, dv[k].storage_, last'.arg).val]_vars


(***************************************************************************)
(* Two dvectors whose arrays are replaced and kept.                        *)
(***************************************************************************)
\* the capacity the operations below let a dvector reach
CursorCap == 2

\* dvector<T> k(n), n > 0
CursorCtor(k) ==
  /\ NewD(k) /\ HasRoom(heap, 1)
  /\ \E n \in 1..Cap :
       \E r \in {dvector_n(heap, n)} :
         DStep([dv EXCEPT ![k] = r.d], r.h, Op("ctor_n", k, n, NoVal, r.ev))

\* k.reserve(n)
CursorReserve(k) ==
  /\ IsD(k) /\ HasRoom(heap, 1)
  /\ \E n \in 0..CursorCap :
       \E r \in {dvector_reserve(dv[k], heap, n)} :
         DStep([dv EXCEPT ![k] = r.d], r.h, Op("reserve", k, n, NoVal, r.ev))

\* k.shrink_to_fit()
CursorShrink(k) ==
  /\ IsD(k) /\ HasRoom(heap, 1)
  /\ \E r \in {dvector_shrink_to_fit(dv[k], heap)} :
       DStep([dv EXCEPT ![k] = r.d], r.h, Op("shrink_to_fit", k, NoVal, NoVal, r.ev))

\* k.resize(n)
CursorResize(k) ==
  /\ IsD(k) /\ HasRoom(heap, 1)
  /\ \E n \in 0..CursorCap :
       \E r \in {dvector_resize(dv[k], heap, n)} :
         DStep([dv EXCEPT ![k] = r.d], r.h, Op("resize", k, n, NoVal, r.ev))

\* k.push_back(v)
CursorPush(k) ==
  /\ IsD(k) /\ HasRoom(heap, 1) /\ grown(dv[k]) <= CursorCap
  /\ \E v \in Vals :
       \E r \in {dvector_emplace_back(dv[k], heap, v)} :
         DStep([dv EXCEPT ![k] = r.d], r.h, Op("push_back", k, v, r.ret, r.ev))

CursorInit ==
  /\ kind = "dvector"
  /\ pair = TRUE
  /\ cv = [k \in Objs |-> cvector_none]
  /\ dv = [k \in Objs |-> dvector_none]
  /\ heap = [p \in BufIds |-> FreeBuf]
  /\ status = "running"
  /\ last = Op("none", "a", NoVal, NoVal, {})

CursorNext ==
  \/ \E k \in Objs : CursorCtor(k)
  \/ \E k \in Objs : CursorReserve(k)
  \/ CursorShrink("a")
  \/ CursorResize("a")
  \/ CursorPush("a")
  \/ DPopBack("a")
  \/ DClear("a")
  \/ DAssignCopy("a", "b")
  \/ DAssignMove("a", "b")
  \/ DDtor("a")

CursorSpec == CursorInit /\ [][CursorNext]_vars

\* the step is an operation on the existing dvector k that ran to completion
DOpOn(k) ==
  /\ IsD(k) /\ status' = "running" /\ last'.obj = k
  /\ last'.op \in {"reserve", "push_back", "shrink_to_fit", "resize", "assign_copy",
                   "assign_move", "pop_back", "clear", "dtor", "index", "front",
                   "back", "back_write"}

\* the step is one of the operations on k that replace its array
Reallocating(k) ==
  \/ last'.op = "reserve" /\ last'.arg > dv[k].capacity_
  \/ last'.op = "push_back" /\ dv[k].size_ = dv[k].capacity_
  \/ last'.op = "shrink_to_fit" /\ dv[k].capacity_ > dv[k].size_
  \/ last'.op = "resize" /\ last'.arg > dv[k].capacity_
  \/ last'.op = "assign_copy" /\ dv[Other(k)].capacity_ > dv[k].capacity_
  \/ last'.op = "assign_move"

\* the array at p of the state before the step is gone after it: the address
\* is free, or holds an array of another length (an array is never resized in
\* place, so that is an array allocated later)
Released(p) ==
  p \notin Allocated(heap') \/ DOMAIN heap'[p].cells # DOMAIN heap[p].cells

\* the cell holds no element any more: it was destroyed or moved from
Gone(s) == ~s.live \/ s.val = Unspec

\* C25 (cursor invalidation): a reallocating dvector operation (a growing
\* reserve, push_back at size() == capacity(), shrink_to_fit with capacity()
\* > size(), resize beyond the capacity, copy assignment from a source of
\* larger capacity, move assignment) and the destructor leave every cursor
\* obtained before pointing into a released array; an operation that moves
\* from or destroys cells leaves the cursors to them designating no element; an operation that
\* does not reallocate keeps the array, and the cursors to the surviving
\* elements designate the same elements.
C25_CursorInvalidation ==
  [][\A k \in Objs : DOpOn(k) =>
       /\ (Reallocating(k) \/ last'.op = "dtor") /\ dv[k].storage_ # Null =>
            /\ Released(st_begin(dv[k]).buf)
            /\ dv'[k].storage_ # dv[k].storage_ \/ last'.op = "assign_copy"
       /\ ~Reallocating(k) /\ last'.op # "dtor" =>
            /\ st_begin(dv'[k]) = st_begin(dv[k])
            /\ dv[k].storage_ # Null => ~Released(dv[k].storage_)
            /\ \A j \in 0..(dv[k].size_ - 1) :
                 IF j < dv'[k].size_
                 THEN st_at(heap', st_plus(st_begin(dv[k]), j), 0).live
                 ELSE Gone(st_at(heap', st_plus(st_begin(dv[k]), j), 0))]_vars

\* reserve(2) has moved one element from the array at 1 to the array at 2
C25_Witness ==
  /\ Running /\ kind = "dvector" /\ pair /\ last.op = "reserve" /\ last.arg = 2
  /\ last.obj = "a" /\ dv["a"].capacity_ = 2 /\ dv["a"].size_ = 1
  /\ dv["a"].storage_ = 2 /\ 1 \notin Allocated(heap)

====
